---- MODULE Spec2Model ----
(***************************************************************************)
(* Weeklypedia / weekly-update-assistant: the activity-classification and  *)
(* resilient-generation pipeline.                                          *)
(*                                                                         *)
(*   RateLimiter   src/weekly-update-assistant/src/ai-agent/utils/         *)
(*                 rateLimiter.ts                                          *)
(*   Categorizer   src/weekly-update-assistant/src/ai-agent/categorizer.ts *)
(*                                                                         *)
(* Time is counted in ticks of 1000 ms, the size of the limiter's safety   *)
(* buffer, so the buffer is 1 tick and a window of timeWindowMinutes       *)
(* minutes is 60 * timeWindowMinutes ticks.  The constructor takes any     *)
(* positive numbers; the model draws them from small sets.                 *)
(***************************************************************************)
EXTENDS Integers, Sequences, FiniteSets, TLC

VARIABLES
  now,          \* Date.now(), in ticks
  requests,     \* RateLimiter.requests: the recorded call timestamps
  maxRequests,  \* RateLimiter.maxRequests
  timeWindow,   \* RateLimiter.timeWindow, in ticks
  callers,      \* the tasks that call the shared limiter
  pc,           \* per caller: where it stands in waitForAvailability / execute
  wakeAt,       \* per caller: when its setTimeout is due
  recordedBy,   \* per caller: timestamps pushed by its execute in progress
  returned,     \* what the step just taken returned to its caller
  activities,   \* classifyActivities: the batch of activity texts
  source,       \* classifyActivities: the source kind of the batch
  categorizedActivities, \* classifyActivities: the results pushed so far
  backendLog,   \* how the model call ended for each item classified so far
  classified,   \* what the latest call of classifyActivity returned
  grouped,      \* what groupByCategory returned
  cpc,          \* where the Categorizer run stands
  request,      \* POST /api/analyze: the body of the request
  githubData,   \* POST /api/analyze: what fetchGitHubData returned
  response,     \* POST /api/analyze: the response sent
  backendDown,  \* whether the generation backend fails on every call
  generationCalls, \* calls of model.generateContent made for the request
  rpc,          \* where the request stands
  input,        \* the arguments of the running call of the agent
  apc,          \* where the call of the agent stands
  stage,        \* processAllSources: the source being processed
  allActivities, \* processAllSources: the activities gathered so far
  weeklySummary, \* createComprehensiveSummary: the summary
  agentResult,  \* how the latest call of the agent ended
  call,         \* a method called on its own: its name and its arguments
  ret,          \* what that call returned, and the model calls it made
  logs,         \* ServerLogManager.logs
  added,        \* the log entries added since the last clearLogs
  logSeq        \* the number of log entries added so far

rlVars == <<now, requests, maxRequests, timeWindow, callers, pc, wakeAt,
            recordedBy, returned>>

catVars == <<activities, source, categorizedActivities, backendLog,
             classified, grouped, cpc>>

routeVars == <<request, githubData, response, backendDown, generationCalls,
               rpc>>

agentVars == <<input, apc, stage, allActivities, weeklySummary, agentResult>>

logVars == <<logs, added, logSeq>>

callVars == <<call, ret, logVars>>

vars == <<rlVars, catVars, routeVars, agentVars, callVars>>

(* the variables the limiter does not touch *)
notRL == <<catVars, routeVars, agentVars, callVars>>

(* the variables the Categorizer does not touch *)
notCat == <<rlVars, routeVars, agentVars, callVars>>

----------------------------------------------------------------------------
(* Bounds of the model *)

MaxTime == 6
MaxRequestsBound == 2
MaxWindow == 3
MaxBatch == 3
MaxItems == 12
MaxAdds == 55

(* The "+ 1000" of waitForAvailability, in ticks *)
SafetyBuffer == 1

----------------------------------------------------------------------------
(* Small helpers *)

Max(a, b) == IF a >= b THEN a ELSE b

(* a value that is computed once and handed to what goes on with it *)
With(value, Rest(_)) == Rest(value)

RECURSIVE MinOf(_)
MinOf(s) ==
  IF Len(s) = 1 THEN s[1]
  ELSE LET m == MinOf(Tail(s)) IN IF s[1] <= m THEN s[1] ELSE m

----------------------------------------------------------------------------
(* Strings, as JavaScript's String methods compute them *)

UpperCaseLetters == "ABCDEFGHIJKLMNOPQRSTUVWXYZ"
LowerCaseLetters == "abcdefghijklmnopqrstuvwxyz"

(* the characters \s and trim() take for white space *)
WhiteSpace == {" ", "\n", "\t", "\r"}

(* s.charAt(i - 1): the empty string outside the string *)
CharAt(s, i) == IF i \in 1..Len(s) THEN SubSeq(s, i, i) ELSE ""

(* the character of `to` at the place c has in `from`, or c itself *)
MapChar(c, from, to) ==
  IF \E i \in 1..Len(from) : CharAt(from, i) = c
  THEN CharAt(to, CHOOSE i \in 1..Len(from) : CharAt(from, i) = c)
  ELSE c

RECURSIVE toLowerCase(_)
toLowerCase(s) ==
  IF s = "" THEN ""
  ELSE MapChar(Head(s), UpperCaseLetters, LowerCaseLetters) \o toLowerCase(Tail(s))

RECURSIVE toUpperCase(_)
toUpperCase(s) ==
  IF s = "" THEN ""
  ELSE MapChar(Head(s), LowerCaseLetters, UpperCaseLetters) \o toUpperCase(Tail(s))

RECURSIVE trimStart(_)
trimStart(s) ==
  IF s # "" /\ Head(s) \in WhiteSpace THEN trimStart(Tail(s)) ELSE s

RECURSIVE trimEnd(_)
trimEnd(s) ==
  IF s # "" /\ CharAt(s, Len(s)) \in WhiteSpace
  THEN trimEnd(SubSeq(s, 1, Len(s) - 1))
  ELSE s

trim(s) == trimEnd(trimStart(s))

startsWith(s, prefix) ==
  Len(prefix) <= Len(s) /\ SubSeq(s, 1, Len(prefix)) = prefix

endsWith(s, suffix) ==
  Len(suffix) <= Len(s) /\ SubSeq(s, Len(s) - Len(suffix) + 1, Len(s)) = suffix

includes(s, part) ==
  \E i \in 1..(Len(s) - Len(part) + 1) : SubSeq(s, i, i + Len(part) - 1) = part

slice(s, from) == IF from >= Len(s) THEN "" ELSE SubSeq(s, from + 1, Len(s))

(* s.replace(/^(w1|w2|...):\s*/i, "") for the words of the sequence ws *)
stripPrefix(s, ws) ==
  With({i \in 1..Len(ws) : startsWith(toLowerCase(s), ws[i] \o ":")},
       LAMBDA hits :
         IF hits = {} THEN s
         ELSE LET w == ws[CHOOSE i \in hits : \A j \in hits : i <= j]
              IN trimStart(slice(s, Len(w) + 1)))

----------------------------------------------------------------------------
(* JSON.parse.  A JavaScript value is a record of its type t and its value *)
(* v; an array holds a sequence of values, an object a function from its   *)
(* keys.  The grammar covers what the model's backend texts use: null,     *)
(* true, false, integers, strings with the escapes \" \\ \/ \n \t, arrays  *)
(* and objects.                                                            *)

JNull == [t |-> "null", v |-> 0]
JBool(b) == [t |-> "bool", v |-> b]
JNum(n) == [t |-> "num", v |-> n]
JStr(s) == [t |-> "str", v |-> s]
JArr(items) == [t |-> "arr", v |-> items]
JObj(members) == [t |-> "obj", v |-> members]

Digits == "0123456789"

IsDigit(c) == \E d \in 1..Len(Digits) : CharAt(Digits, d) = c

DigitValue(c) == (CHOOSE d \in 1..Len(Digits) : CharAt(Digits, d) = c) - 1

(* the result of parsing one construct: the value and the place after it *)
Parsed(val, next) == [ok |-> TRUE, val |-> val, next |-> next]
SyntaxError == [ok |-> FALSE, val |-> JNull, next |-> 0]

RECURSIVE skipWs(_, _)
skipWs(s, i) == IF CharAt(s, i) \in WhiteSpace THEN skipWs(s, i + 1) ELSE i

RECURSIVE scanDigits(_, _, _)
scanDigits(s, i, acc) ==
  IF IsDigit(CharAt(s, i))
  THEN scanDigits(s, i + 1, 10 * acc + DigitValue(CharAt(s, i)))
  ELSE Parsed(JNum(acc), i)

parseNumber(s, i) ==
  LET neg == CharAt(s, i) = "-"
      j == IF neg THEN i + 1 ELSE i
  IN IF ~IsDigit(CharAt(s, j)) THEN SyntaxError
     ELSE IF CharAt(s, j) = "0" /\ IsDigit(CharAt(s, j + 1)) THEN SyntaxError
     ELSE LET r == scanDigits(s, j, 0)
          IN IF neg THEN Parsed(JNum(0 - r.val.v), r.next) ELSE r

(* the characters of a string literal from place i on, up to its quote *)
RECURSIVE scanString(_, _, _)
scanString(s, i, acc) ==
  LET c == CharAt(s, i) IN
  IF c = "" \/ c \in {"\n", "\t", "\r"} THEN SyntaxError
  ELSE IF c = "\"" THEN Parsed(JStr(acc), i + 1)
  ELSE IF c = "\\"
       THEN LET e == CharAt(s, i + 1) IN
            IF e \in {"\"", "\\", "/"} THEN scanString(s, i + 2, acc \o e)
            ELSE IF e = "n" THEN scanString(s, i + 2, acc \o "\n")
            ELSE IF e = "t" THEN scanString(s, i + 2, acc \o "\t")
            ELSE SyntaxError
       ELSE scanString(s, i + 1, acc \o c)

parseLiteral(s, i, word, val) ==
  IF i + Len(word) - 1 <= Len(s) /\ SubSeq(s, i, i + Len(word) - 1) = word
  THEN Parsed(val, i + Len(word))
  ELSE SyntaxError

RECURSIVE parseValue(_, _)
RECURSIVE parseElements(_, _, _)
RECURSIVE parseMembers(_, _, _)

parseValue(s, i) ==
  LET c == CharAt(s, i) IN
  IF c = "n" THEN parseLiteral(s, i, "null", JNull)
  ELSE IF c = "t" THEN parseLiteral(s, i, "true", JBool(TRUE))
  ELSE IF c = "f" THEN parseLiteral(s, i, "false", JBool(FALSE))
  ELSE IF c = "\"" THEN scanString(s, i + 1, "")
  ELSE IF c = "-" \/ IsDigit(c) THEN parseNumber(s, i)
  ELSE IF c = "["
       THEN LET j == skipWs(s, i + 1) IN
            IF CharAt(s, j) = "]" THEN Parsed(JArr(<<>>), j + 1)
            ELSE parseElements(s, j, <<>>)
  ELSE IF c = "{"
       THEN LET j == skipWs(s, i + 1) IN
            IF CharAt(s, j) = "}" THEN Parsed(JObj(<<>>), j + 1)
            ELSE parseMembers(s, j, <<>>)
  ELSE SyntaxError

parseElements(s, i, acc) ==
  With(parseValue(s, i), LAMBDA r :
    IF ~r.ok THEN SyntaxError
    ELSE LET j == skipWs(s, r.next)
             c == CharAt(s, j)
         IN IF c = "," THEN parseElements(s, skipWs(s, j + 1), Append(acc, r.val))
            ELSE IF c = "]" THEN Parsed(JArr(Append(acc, r.val)), j + 1)
            ELSE SyntaxError)

(* the members of an object; a key written twice keeps its last value *)
parseMembers(s, i, acc) ==
  IF CharAt(s, i) # "\"" THEN SyntaxError
  ELSE With(scanString(s, i + 1, ""), LAMBDA k :
    IF ~k.ok THEN SyntaxError
    ELSE LET j == skipWs(s, k.next) IN
         IF CharAt(s, j) # ":" THEN SyntaxError
         ELSE With(parseValue(s, skipWs(s, j + 1)), LAMBDA r :
           IF ~r.ok THEN SyntaxError
           ELSE LET m == skipWs(s, r.next)
                    c == CharAt(s, m)
                    members == (k.val.v :> r.val) @@ acc
                IN IF c = "," THEN parseMembers(s, skipWs(s, m + 1), members)
                   ELSE IF c = "}" THEN Parsed(JObj(members), m + 1)
                   ELSE SyntaxError))

(* JSON.parse(text): the value, or a thrown SyntaxError *)
JSONparse(text) ==
  With(parseValue(text, skipWs(text, 1)), LAMBDA r :
    IF r.ok /\ skipWs(text, r.next) = Len(text) + 1
    THEN [threw |-> FALSE, value |-> r.val]
    ELSE [threw |-> TRUE, value |-> JNull])

(* what JavaScript takes for true in a condition *)
truthy(x) ==
  IF x.t = "null" THEN FALSE
  ELSE IF x.t = "bool" THEN x.v
  ELSE IF x.t = "num" THEN x.v # 0
  ELSE IF x.t = "str" THEN x.v # ""
  ELSE TRUE

(* how a call ends: it throws, or it returns a value *)
Threw == [threw |-> TRUE, value |-> <<>>]
Returned(v) == [threw |-> FALSE, value |-> v]

----------------------------------------------------------------------------
(* Categorizer: the pure methods *)

(* validCategories, the ActivityCategory type *)
validCategories ==
  <<"feature", "fix", "refactor", "docs", "test", "chore", "performance",
    "security">>

Taxonomy == {validCategories[i] : i \in 1..Len(validCategories)}

(* the keyword rules of fallbackClassification, in the order of the code *)
fallbackRules ==
  << [category |-> "feature",
      keywords |-> {"add", "implement", "create", "new", "feature", "enhance"}],
     [category |-> "fix",
      keywords |-> {"fix", "bug", "error", "issue", "resolve", "correct"}],
     [category |-> "refactor",
      keywords |-> {"refactor", "clean", "improve", "optimize", "restructure",
                    "update"}],
     [category |-> "docs",
      keywords |-> {"doc", "readme", "comment", "documentation"}],
     [category |-> "test",
      keywords |-> {"test", "spec", "unit", "integration"}],
     [category |-> "performance",
      keywords |-> {"performance", "speed", "cache", "memory"}],
     [category |-> "security",
      keywords |-> {"security", "auth", "permission", "vulnerability"}] >>

RECURSIVE firstRule(_, _)
firstRule(text, i) ==
  IF i > Len(fallbackRules) THEN "chore"
  ELSE IF \E k \in fallbackRules[i].keywords : includes(text, k)
       THEN fallbackRules[i].category
       ELSE firstRule(text, i + 1)

(* the keyword rules with the fix rule tried before the feature rule *)
fallbackClassificationFixFirst(activity) ==
  IF \E k \in fallbackRules[2].keywords : includes(toLowerCase(activity), k)
  THEN "fix"
  ELSE firstRule(toLowerCase(activity), 1)

fallbackClassification(activity) == firstRule(toLowerCase(activity), 1)

assessImpact(activity, category) ==
  LET text == toLowerCase(activity) IN
  IF \/ \E k \in {"major", "significant", "breaking", "critical", "important",
                  "milestone"} : includes(text, k)
     \/ category \in {"security", "performance"}
  THEN "high"
  ELSE IF \/ \E k \in {"improve", "enhance", "optimize", "feature"} :
                includes(text, k)
          \/ category \in {"feature", "fix"}
       THEN "medium"
       ELSE "low"

technicalPrefixes ==
  <<"feat", "fix", "refactor", "docs", "test", "chore", "style", "perf",
    "security">>

verbPrefixes ==
  <<"add", "implement", "create", "update", "fix", "remove", "delete">>

(* s.replace(/^(w1|w2|...):?\s*/i, ""): the colon need not be there *)
stripWord(s, ws) ==
  With({i \in 1..Len(ws) : startsWith(toLowerCase(s), ws[i])},
       LAMBDA hits :
         IF hits = {} THEN s
         ELSE LET w == ws[CHOOSE i \in hits : \A j \in hits : i <= j]
              IN trimStart(slice(s, Len(w))))

(* a description that loses its leading verb, with or without a colon *)
createBusinessDescriptionBareVerbs(activity, category) ==
  With(trim(stripWord(stripPrefix(activity, technicalPrefixes), verbPrefixes)),
       LAMBDA stripped :
    With(toUpperCase(CharAt(stripped, 1)) \o slice(stripped, 1),
         LAMBDA capital :
      IF endsWith(capital, ".") \/ endsWith(capital, "!") \/ endsWith(capital, "?")
      THEN capital
      ELSE capital \o "."))

createBusinessDescription(activity, category) ==
  With(trim(stripPrefix(stripPrefix(activity, technicalPrefixes), verbPrefixes)),
       LAMBDA stripped :
    With(toUpperCase(CharAt(stripped, 1)) \o slice(stripped, 1),
         LAMBDA capital :
      IF endsWith(capital, ".") \/ endsWith(capital, "!") \/ endsWith(capital, "?")
      THEN capital
      ELSE capital \o "."))

(* what the model call of classifyActivity can do: throw, or answer a text *)
BackendError == [kind |-> "error", text |-> ""]

ClassificationAnswers ==
  {" Fix\n", "SECURITY", "bugfix", "", "It is a chore."}

ClassificationOutcomes ==
  {BackendError} \cup {[kind |-> "text", text |-> t] : t \in ClassificationAnswers}

(* a classifyActivity that trusts the label the model answers *)
classifyActivityUnchecked(activity, outcome) ==
  IF outcome.kind = "error"
  THEN [threw |-> FALSE, value |-> fallbackClassification(activity)]
  ELSE [threw |-> FALSE, value |-> toLowerCase(trim(outcome.text))]

(* a classifyActivity that compares the answer as the model wrote it *)
classifyActivityVerbatim(activity, outcome) ==
  IF outcome.kind = "error"
  THEN [threw |-> FALSE, value |-> fallbackClassification(activity)]
  ELSE IF outcome.text \in Taxonomy
       THEN [threw |-> FALSE, value |-> outcome.text]
       ELSE [threw |-> FALSE, value |-> fallbackClassification(activity)]

(* classifyActivity: the try block, then the catch block *)
classifyActivity(activity, outcome) ==
  IF outcome.kind = "error"
  THEN [threw |-> FALSE, value |-> fallbackClassification(activity)]
  ELSE LET classification == toLowerCase(trim(outcome.text))
       IN IF classification \in Taxonomy
          THEN [threw |-> FALSE, value |-> classification]
          ELSE [threw |-> FALSE, value |-> fallbackClassification(activity)]

(* the loop body of classifyActivities for one activity: the record pushed *)
categorize(activity, src, outcome) ==
  With(classifyActivity(activity, outcome), LAMBDA c :
    IF c.threw
    THEN [category |-> fallbackClassification(activity),
          description |-> createBusinessDescription(activity, "chore"),
          impact |-> "low", source |-> src, originalText |-> activity]
    ELSE [category |-> c.value,
          description |-> createBusinessDescription(activity, c.value),
          impact |-> assessImpact(activity, c.value),
          source |-> src, originalText |-> activity])

emptyGroups == [c \in Taxonomy |-> <<>>]

RECURSIVE groupFrom(_, _)
groupFrom(g, acts) ==
  IF acts = <<>> THEN g
  ELSE groupFrom([g EXCEPT ![Head(acts).category] = Append(@, Head(acts))],
                 Tail(acts))

(* a grouping that keeps only the latest activity of each category *)
groupByCategoryOverwrite(acts) ==
  [c \in Taxonomy |->
     LET sel == SelectSeq(acts, LAMBDA a : a.category = c)
     IN IF sel = <<>> THEN <<>> ELSE <<sel[Len(sel)]>>]

(* groupByCategory: activities.forEach(a => grouped[a.category].push(a)) *)
groupByCategory(acts) == groupFrom(emptyGroups, acts)

NoClassified == [threw |-> FALSE, value |-> "none"]

(* the Categorizer before any call *)
CatIdle ==
  /\ activities = <<>>
  /\ source = "commit"
  /\ categorizedActivities = <<>>
  /\ backendLog = <<>>
  /\ classified = NoClassified
  /\ grouped = emptyGroups
  /\ cpc = "idle"

----------------------------------------------------------------------------
(* NotionProcessor and Summarizer: the pure methods                       *)
(*   src/weekly-update-assistant/src/ai-agent/notionProcessor.ts          *)
(*   src/weekly-update-assistant/src/ai-agent/summarizer.ts               *)

Range(s) == {s[i] : i \in 1..Len(s)}

(* The grave accent of a code fence: a TLA+ string cannot hold that        *)
(* character, so the model writes it as a tilde.                          *)
Backtick == "~"
Fence == Backtick \o Backtick \o Backtick

(* the second replace: white space and a closing fence at the end go *)
stripClosingFence(s) ==
  IF endsWith(s, Fence) THEN trimEnd(SubSeq(s, 1, Len(s) - 3)) ELSE s

(* the if / else if that strips a code fence from the answer: the first   *)
(* replace takes the opening fence and the white space after it           *)
stripCodeFence(cleanedText) ==
  IF startsWith(cleanedText, Fence \o "json")
  THEN stripClosingFence(trimStart(slice(cleanedText, 7)))
  ELSE IF startsWith(cleanedText, Fence)
       THEN stripClosingFence(trimStart(slice(cleanedText, 3)))
       ELSE cleanedText

(* arr.filter((x, index, arr) => arr.indexOf(x) === index) *)
RECURSIVE removeDuplicates(_, _)
removeDuplicates(items, seen) ==
  IF items = <<>> THEN <<>>
  ELSE IF Head(items) \in seen THEN removeDuplicates(Tail(items), seen)
  ELSE <<Head(items)>> \o removeDuplicates(Tail(items), seen \cup {Head(items)})

(* s.replace(/\s+/g, " "): each run of white space becomes one space *)
RECURSIVE normalizeWhitespace(_)
normalizeWhitespace(s) ==
  IF s = "" THEN ""
  ELSE IF Head(s) \in WhiteSpace
       THEN " " \o normalizeWhitespace(trimStart(s))
       ELSE Head(s) \o normalizeWhitespace(Tail(s))

cleanTextContent(content) == trim(normalizeWhitespace(content))

(* content.split(/[.!?]+/): the pieces between the runs of . ! ? *)
RECURSIVE splitSentences(_)
splitSentences(s) ==
  LET marks == {i \in 1..Len(s) : CharAt(s, i) \in {".", "!", "?"}} IN
  IF marks = {} THEN <<s>>
  ELSE LET first == CHOOSE i \in marks : \A j \in marks : i <= j
           rest == CHOOSE i \in (first + 1)..(Len(s) + 1) :
                     /\ i \notin marks
                     /\ \A j \in first..(i - 1) : j \in marks
       IN <<SubSeq(s, 1, first - 1)>> \o splitSentences(SubSeq(s, rest, Len(s)))

(* the loop of the fallback extractions: the trimmed sentences that hold   *)
(* a keyword, up to the limit                                              *)
RECURSIVE keywordSentences(_, _, _, _)
keywordSentences(sentences, keywords, limit, found) ==
  IF sentences = <<>> \/ Len(found) >= limit THEN found
  ELSE keywordSentences(
         Tail(sentences), keywords, limit,
         IF \E k \in keywords : includes(toLowerCase(Head(sentences)), k)
         THEN Append(found, trim(Head(sentences)))
         ELSE found)

fallbackExtraction(content, keywords, limit) ==
  keywordSentences(
    SelectSeq(splitSentences(content), LAMBDA s : Len(trim(s)) > 10),
    keywords, limit, <<>>)

achievementKeywords ==
  {"completed", "finished", "implemented", "created", "developed", "built",
   "delivered", "achieved", "accomplished", "solved"}

insightKeywords ==
  {"discovered", "found", "realized", "learned", "understood", "insight",
   "finding", "conclusion", "observation"}

learningKeywords ==
  {"learned", "studied", "mastered", "acquired", "gained", "skill",
   "knowledge", "concept", "technique", "methodology"}

(* an achievement fallback with the limit of the other two *)
fallbackAchievementExtractionLimit3(content) ==
  fallbackExtraction(content, achievementKeywords, 3)

fallbackAchievementExtraction(content) ==
  fallbackExtraction(content, achievementKeywords, 5)

fallbackInsightExtraction(content) ==
  fallbackExtraction(content, insightKeywords, 3)

fallbackLearningExtraction(content) ==
  fallbackExtraction(content, learningKeywords, 3)

(* items.filter((a) => a && a.trim().length > 0) on a parsed answer: only *)
(* an array has filter, and only a string has trim                        *)
filterStrings(value) ==
  IF value.t # "arr" THEN Threw
  ELSE IF \E i \in 1..Len(value.v) : truthy(value.v[i]) /\ value.v[i].t # "str"
       THEN Threw
       ELSE LET kept == SelectSeq(value.v,
                                  LAMBDA a : truthy(a) /\ trim(a.v) # "")
            IN Returned([i \in 1..Len(kept) |-> kept[i].v])

(* the try block of the extractions: the call, JSON.parse, the filter *)
parseStringArray(outcome) ==
  IF outcome.kind = "error" THEN Threw
  ELSE With(JSONparse(trim(outcome.text)), LAMBDA parsed :
         IF parsed.threw THEN Threw ELSE filterStrings(parsed.value))

extractAchievements(content, outcome) ==
  IF trim(content) = "" THEN Returned(<<>>)
  ELSE With(parseStringArray(outcome), LAMBDA tried :
         IF tried.threw THEN Returned(fallbackAchievementExtraction(content))
         ELSE tried)

extractInsights(content, outcome) ==
  IF trim(content) = "" THEN Returned(<<>>)
  ELSE With(parseStringArray(outcome), LAMBDA tried :
         IF tried.threw THEN Returned(fallbackInsightExtraction(content))
         ELSE tried)

extractLearnings(content, outcome) ==
  IF trim(content) = "" THEN Returned(<<>>)
  ELSE With(parseStringArray(outcome), LAMBDA tried :
         IF tried.threw THEN Returned(fallbackLearningExtraction(content))
         ELSE tried)

fallbackProcessing(content) ==
  [achievements |-> fallbackAchievementExtraction(content),
   insights |-> fallbackInsightExtraction(content),
   learnings |-> fallbackLearningExtraction(content)]

(* processTextContent, given how its three extractions ended *)
processTextContent(content, achievements, insights, learnings) ==
  IF content = "" \/ trim(content) = ""
  THEN Returned([achievements |-> <<>>, insights |-> <<>>, learnings |-> <<>>])
  ELSE IF achievements.threw \/ insights.threw \/ learnings.threw
       THEN Returned(fallbackProcessing(cleanTextContent(content)))
       ELSE Returned([achievements |-> achievements.value,
                      insights |-> insights.value,
                      learnings |-> learnings.value])

convertToAchievements(processed) ==
  removeDuplicates(
    processed.achievements
    \o [i \in 1..Len(processed.insights) |->
          "Researched and documented " \o toLowerCase(processed.insights[i])]
    \o [i \in 1..Len(processed.learnings) |->
          "Learned and applied " \o toLowerCase(processed.learnings[i])],
    {})

(* s.replace(/^PR #\d+:\s*/, "") *)
RECURSIVE skipDigits(_, _)
skipDigits(s, i) == IF IsDigit(CharAt(s, i)) THEN skipDigits(s, i + 1) ELSE i

stripPullRequestPrefix(s) ==
  LET j == skipDigits(s, 5) IN
  IF startsWith(s, "PR #") /\ j > 5 /\ CharAt(s, j) = ":"
  THEN trimStart(slice(s, j))
  ELSE s

(* Summarizer.cleanActivityDescription *)
cleanActivityDescription(activity) ==
  With(trim(stripPullRequestPrefix(stripPrefix(activity, technicalPrefixes))),
       LAMBDA cleaned :
    With(toUpperCase(CharAt(cleaned, 1)) \o slice(cleaned, 1),
         LAMBDA capital :
      IF endsWith(capital, ".") \/ endsWith(capital, "!") \/ endsWith(capital, "?")
      THEN capital
      ELSE capital \o "."))

highImpactKeywords ==
  {"major", "significant", "critical", "important", "milestone", "launch",
   "release", "performance", "security", "breaking"}

isHighImpact(activity) ==
  \E k \in highImpactKeywords : includes(toLowerCase(activity), k)

(* content.split(/\n+|\. |\! |\? |;/) *)
RECURSIVE splitChunks(_, _, _)
splitChunks(s, i, piece) ==
  LET c == CharAt(s, i) IN
  IF c = "" THEN <<piece>>
  ELSE IF c = "\n"
       THEN IF CharAt(s, i + 1) = "\n" THEN splitChunks(s, i + 1, piece)
            ELSE <<piece>> \o splitChunks(s, i + 1, "")
  ELSE IF c \in {".", "!", "?"} /\ CharAt(s, i + 1) = " "
       THEN <<piece>> \o splitChunks(s, i + 2, "")
  ELSE IF c = ";" THEN <<piece>> \o splitChunks(s, i + 1, "")
  ELSE splitChunks(s, i + 1, piece \o c)

(* Summarizer.fallbackContentExtraction *)
fallbackContentExtraction(content) ==
  With(splitChunks(content, 1, ""), LAMBDA pieces :
    With(SelectSeq([i \in 1..Len(pieces) |-> trim(pieces[i])],
                   LAMBDA chunk : Len(chunk) > 20),
         LAMBDA long :
      LET chunks == SubSeq(long, 1, IF Len(long) < 5 THEN Len(long) ELSE 5)
      IN [i \in 1..Len(chunks) |-> cleanActivityDescription(chunks[i])]))

(* Summarizer.extractActivitiesFromContent *)
extractActivitiesFromContent(content, outcome) ==
  IF content = "" \/ trim(content) = "" THEN Returned(<<>>)
  ELSE With(parseStringArray(outcome), LAMBDA tried :
         IF tried.threw THEN Returned(fallbackContentExtraction(content))
         ELSE tried)

emptySummary ==
  [Features |-> <<>>, Fixes |-> <<>>, Refactors |-> <<>>,
   Highlights |-> <<>>, Notes |-> <<>>]

SummaryFields == {"Features", "Fixes", "Refactors", "Highlights", "Notes"}

(* one field of validateAndCleanSummary: an array is filtered, anything   *)
(* else becomes the empty list; null has no properties                    *)
cleanField(summary, field) ==
  IF summary.t = "null" THEN Threw
  ELSE IF summary.t = "obj" /\ field \in DOMAIN summary.v
          /\ summary.v[field].t = "arr"
       THEN filterStrings(summary.v[field])
       ELSE Returned(<<>>)

(* Summarizer.validateAndCleanSummary *)
validateAndCleanSummary(summary) ==
  IF \E f \in SummaryFields : cleanField(summary, f).threw THEN Threw
  ELSE Returned([f \in SummaryFields |-> cleanField(summary, f).value])

(* the try block of generateStructuredSummary: the call, the fence, the   *)
(* parse, the validation                                                  *)
parseStructuredSummary(outcome) ==
  IF outcome.kind = "error" THEN Threw
  ELSE With(JSONparse(stripCodeFence(trim(outcome.text))), LAMBDA parsed :
         IF parsed.threw THEN Threw ELSE validateAndCleanSummary(parsed.value))

(* a mapping that files the performance work under Refactors *)
mapToWeeklySummaryCategoriesPerformanceRefactors(g) ==
  LET descriptions(c) == [i \in 1..Len(g[c]) |-> g[c][i].description] IN
  [Features |-> descriptions("feature") \o descriptions("security"),
   Fixes |-> descriptions("fix"),
   Refactors |-> descriptions("refactor") \o descriptions("docs")
                 \o descriptions("test") \o descriptions("chore")
                 \o descriptions("performance")]

(* a mapping that forgets the chores *)
mapToWeeklySummaryCategoriesNoChore(g) ==
  LET descriptions(c) == [i \in 1..Len(g[c]) |-> g[c][i].description] IN
  [Features |-> descriptions("feature") \o descriptions("performance")
                \o descriptions("security"),
   Fixes |-> descriptions("fix"),
   Refactors |-> descriptions("refactor") \o descriptions("docs")
                 \o descriptions("test")]

(* Categorizer.mapToWeeklySummaryCategories *)
mapToWeeklySummaryCategories(g) ==
  LET descriptions(c) == [i \in 1..Len(g[c]) |-> g[c][i].description] IN
  [Features |-> descriptions("feature") \o descriptions("performance")
                \o descriptions("security"),
   Fixes |-> descriptions("fix"),
   Refactors |-> descriptions("refactor") \o descriptions("docs")
                 \o descriptions("test") \o descriptions("chore")]

----------------------------------------------------------------------------
(* The inputs and the backend answers the model draws from *)

(* the activity texts and source kinds of the Categorizer's batch runs *)
ActivityTexts ==
  {"fix: null pointer in parser", "feat: add CSV export", "Bump deps",
   "PR #7: Speed up cache - BREAKING"}

BatchSourceKinds == {"commit", "notion"}

SourceKinds == {"commit", "pr", "notion", "manual"}

(* what fetchGitHubData can deliver: the commit messages and the pull     *)
(* requests of the date range                                             *)
CommitBatches ==
  {<<>>, <<"fix: null pointer in parser">>,
   <<"fix: null pointer in parser", "feat: add CSV export">>}

PullRequestBatches ==
  {<<>>, <<[number |-> 7, title |-> "Speed up cache", body |-> "BREAKING"]>>}

(* the notes of a request: absent, blank or a text *)
NotionTexts == {"", "  \n", "Studied the caching methodology."}

(* the additional context of an analysis: absent or a text *)
ContextTexts ==
  {"", "Found a critical race in checkout; fixed it in the payment flow"}

(* the description built of a pull request *)
prDescription(pr) ==
  "PR #" \o ToString(pr.number) \o ": " \o pr.title
  \o (IF pr.body # "" THEN " - " \o pr.body ELSE "")

prDescriptions(pullRequests) ==
  [i \in 1..Len(pullRequests) |-> prDescription(pullRequests[i])]

(* what a model call that is asked for a JSON array of strings can do *)
ExtractionAnswers ==
  {"[\"Shipped CSV export\", \"\"]", "", "Here is what I found.", "[42]",
   "{\"items\": []}"}

ExtractionOutcomes ==
  {BackendError} \cup {[kind |-> "text", text |-> a] : a \in ExtractionAnswers}

(* what the model call of generateStructuredSummary can do *)
SummaryAnswers ==
  {Fence \o "json\n{\"Features\": [\"Shipped CSV export\"], \"Fixes\": [\"\"], \"Notes\": null}\n" \o Fence,
   "", "Summary: a productive week.", "null", "[\"Shipped CSV export\"]",
   "{\"Features\": [1]}"}

SummaryOutcomes ==
  {BackendError} \cup {[kind |-> "text", text |-> a] : a \in SummaryAnswers}

(* the outcomes a call can have now *)
Backend(outcomes) == IF backendDown THEN {BackendError} ELSE outcomes

(* The pure methods tabulated over these inputs and outcomes, so that     *)
(* each value is computed once.                                           *)
extractAchievementsTable ==
  [content \in NotionTexts \cup ContextTexts, o \in ExtractionOutcomes |->
     extractAchievements(cleanTextContent(content), o)]

extractInsightsTable ==
  [content \in NotionTexts \cup ContextTexts, o \in ExtractionOutcomes |->
     extractInsights(cleanTextContent(content), o)]

extractLearningsTable ==
  [content \in NotionTexts \cup ContextTexts, o \in ExtractionOutcomes |->
     extractLearnings(cleanTextContent(content), o)]

notionAchievementsTable ==
  [content \in NotionTexts \cup ContextTexts, a \in ExtractionOutcomes,
   i \in ExtractionOutcomes, l \in ExtractionOutcomes |->
     convertToAchievements(
       processTextContent(content,
                          extractAchievementsTable[content, a],
                          extractInsightsTable[content, i],
                          extractLearningsTable[content, l]).value)]

extractActivitiesFromContentTable ==
  [content \in NotionTexts \cup ContextTexts, o \in ExtractionOutcomes |->
     extractActivitiesFromContent(content, o).value]

parseStringArrayTable == [o \in ExtractionOutcomes |-> parseStringArray(o)]

parseStructuredSummaryTable ==
  [o \in SummaryOutcomes |-> parseStructuredSummary(o)]

(* every text that can come to be classified or cleaned: the batch      *)
(* texts, the commit messages, the descriptions of the pull requests,    *)
(* and what convertToAchievements and extractActivitiesFromContent make  *)
(* of the notes and contexts for each outcome of their calls             *)
AllActivityTexts ==
  {"fix: null pointer in parser",
   "feat: add CSV export",
   "Bump deps",
   "PR #7: Speed up cache - BREAKING",
   "Studied the caching methodology.",
   "Learned and applied studied the caching methodology",
   "Shipped CSV export",
   "Researched and documented found a critical race in checkout; fixed it in the payment flow",
   "Researched and documented shipped csv export",
   "Learned and applied shipped csv export",
   "Found a critical race in checkout.",
   "Fixed it in the payment flow."}

classifyActivityTable ==
  [a \in AllActivityTexts, o \in ClassificationOutcomes |->
     classifyActivity(a, o)]

categorizeTable ==
  [a \in AllActivityTexts, src \in SourceKinds, o \in ClassificationOutcomes |->
     categorize(a, src, o)]

cleanActivityDescriptionTable ==
  [a \in AllActivityTexts |-> cleanActivityDescription(a)]

isHighImpactTable == [a \in AllActivityTexts |-> isHighImpact(a)]

(* Summarizer.fallbackHighlightExtraction *)
RECURSIVE highImpactActivities(_, _)
highImpactActivities(acts, found) ==
  IF acts = <<>> \/ Len(found) >= 3 THEN found
  ELSE highImpactActivities(
         Tail(acts),
         IF isHighImpactTable[Head(acts)]
         THEN Append(found, cleanActivityDescriptionTable[Head(acts)])
         ELSE found)

fallbackHighlightExtraction(acts) == highImpactActivities(acts, <<>>)

(* an extractHighlights that lets the failure of its call through *)
extractHighlightsUncaught(texts, outcome) ==
  IF texts = <<>> THEN Returned(<<>>)
  ELSE parseStringArrayTable[outcome]

(* Summarizer.extractHighlights *)
extractHighlights(texts, outcome) ==
  IF texts = <<>> THEN Returned(<<>>)
  ELSE With(parseStringArrayTable[outcome], LAMBDA tried :
         IF tried.threw THEN Returned(fallbackHighlightExtraction(texts))
         ELSE tried)

(* WeeklyUpdateAIAgent.calculateConfidenceScore; the weights are counted  *)
(* in tenths, and Math.round rounds the half up                           *)
sourceWeight(src) ==
  IF src = "commit" THEN 6
  ELSE IF src = "pr" THEN 8
  ELSE IF src = "notion" THEN 7
  ELSE 5

RECURSIVE sumOfWeights(_)
sumOfWeights(acts) ==
  IF acts = <<>> THEN 0
  ELSE sourceWeight(Head(acts).source) + sumOfWeights(Tail(acts))

calculateConfidenceScore(acts) ==
  IF Len(acts) = 0 THEN 0
  ELSE LET base == IF Len(acts) * 10 < 60 THEN Len(acts) * 10 ELSE 60
           diversity == Cardinality({acts[i].source : i \in 1..Len(acts)}) * 10
           impact == Len(SelectSeq(acts, LAMBDA a : a.impact = "high")) * 5
           tenths == (base + diversity + impact) * 10 + sumOfWeights(acts)
           rounded == (tenths + 5) \div 10
       IN IF rounded < 100 THEN rounded ELSE 100

(* the analysis before any call *)
NoInput ==
  [githubData |-> [commits |-> <<>>, pullRequests |-> <<>>],
   notionContent |-> "", additionalContext |-> ""]

NoResult == [entry |-> "none", threw |-> FALSE, value |-> <<>>]

AgentIdle ==
  /\ input = NoInput
  /\ apc = "idle"
  /\ stage = 0
  /\ allActivities = <<>>
  /\ weeklySummary = emptySummary
  /\ agentResult = NoResult

(* the analyze route before any request *)
NoRequest ==
  [accessToken |-> "", repoUrl |-> "", startDate |-> "", endDate |-> "",
   notionContent |-> "", pdfFiles |-> 0]

NoGitHubData == [commits |-> <<>>, pullRequests |-> <<>>]

NoResponse ==
  [status |-> 0, achievements |-> <<>>, error |-> "", details |-> ""]

RouteIdle ==
  /\ request = NoRequest
  /\ githubData = NoGitHubData
  /\ response = NoResponse
  /\ generationCalls = 0
  /\ rpc = "idle"

(* no method has been called on its own *)
NoCall == [method |-> "none", args |-> <<>>]

NotCalled == [threw |-> FALSE, value |-> <<>>, calls |-> 0]

CallIdle ==
  /\ call = NoCall
  /\ ret = NotCalled
  /\ logs = <<>>
  /\ added = <<>>
  /\ logSeq = 0

----------------------------------------------------------------------------
(* RateLimiter *)

CallerIds == {1, 2}

NoReturn == [op |-> "none"]

(* this.requests.filter((timestamp) => now - timestamp < this.timeWindow) *)
Prune(reqs, t) == SelectSeq(reqs, LAMBDA ts : t - ts < timeWindow)

(* the calls recorded within the trailing window at time t *)
InWindow(reqs, t) == Len(Prune(reqs, t))

(* a wait time that forgets the window and sleeps only for the buffer *)
waitTimeBufferOnly(t, oldestRequest) == SafetyBuffer

(* a wait time without the buffer *)
waitTimeNoBuffer(t, oldestRequest) == timeWindow - (t - oldestRequest)

(* const waitTime = this.timeWindow - (now - oldestRequest) + 1000 *)
waitTime(t, oldestRequest) == timeWindow - (t - oldestRequest) + SafetyBuffer

RLInit(cs) ==
  /\ now = 0
  /\ requests = <<>>
  /\ maxRequests \in 1..MaxRequestsBound
  /\ timeWindow \in 2..MaxWindow
  /\ callers = cs
  /\ pc = [p \in cs |-> "idle"]
  /\ wakeAt = [p \in cs |-> 0]
  /\ recordedBy = [p \in cs |-> 0]
  /\ returned = NoReturn
  /\ CatIdle
  /\ RouteIdle
  /\ AgentIdle
  /\ CallIdle

(* A call may begin while the clock leaves room for its longest sleep. *)
CanBegin == now + MaxWindow + SafetyBuffer <= MaxTime

(* a waitForAvailability that turns the caller away when the window is full *)
waitForAvailabilityReject(p, sleepPc, donePc) ==
  LET pruned == Prune(requests, now) IN
  IF Len(pruned) >= maxRequests
  THEN /\ requests' = pruned
       /\ wakeAt' = wakeAt
       /\ pc' = [pc EXCEPT ![p] = "rejected"]
  ELSE /\ requests' = Append(pruned, now)
       /\ wakeAt' = wakeAt
       /\ pc' = [pc EXCEPT ![p] = donePc]

(* waitForAvailability up to its await (a full window) or to its end:      *)
(* prune, then either schedule the timer or push Date.now().               *)
waitForAvailabilityEnter(p, sleepPc, donePc) ==
  LET pruned == Prune(requests, now) IN
  IF Len(pruned) >= maxRequests
  THEN /\ requests' = pruned
       /\ wakeAt' = [wakeAt EXCEPT ![p] = now + waitTime(now, MinOf(pruned))]
       /\ pc' = [pc EXCEPT ![p] = sleepPc]
  ELSE /\ requests' = Append(pruned, now)
       /\ wakeAt' = wakeAt
       /\ pc' = [pc EXCEPT ![p] = donePc]

(* a waitForAvailability that checks the window again after its await and *)
(* records only when there is room                                        *)
waitForAvailabilityResumeRecheck(p, donePc) ==
  /\ now >= wakeAt[p]
  /\ Len(Prune(requests, now)) < maxRequests
  /\ requests' = Append(Prune(requests, now), now)
  /\ pc' = [pc EXCEPT ![p] = donePc]

(* waitForAvailability after its await: this.requests.push(Date.now()) *)
waitForAvailabilityResume(p, donePc) ==
  /\ now >= wakeAt[p]
  /\ requests' = Append(requests, now)
  /\ pc' = [pc EXCEPT ![p] = donePc]

(* a public call of waitForAvailability *)
WaitForAvailability(p) ==
  /\ pc[p] = "idle"
  /\ CanBegin
  /\ waitForAvailabilityEnter(p, "wfa_sleep", "idle")
  /\ returned' = IF pc'[p] = "idle"
                 THEN [op |-> "waitForAvailability", caller |-> p]
                 ELSE NoReturn
  /\ UNCHANGED <<now, maxRequests, timeWindow, callers, recordedBy,
                 notRL>>

WaitForAvailabilityWake(p) ==
  /\ pc[p] = "wfa_sleep"
  /\ waitForAvailabilityResume(p, "idle")
  /\ wakeAt' = [wakeAt EXCEPT ![p] = 0]
  /\ returned' = [op |-> "waitForAvailability", caller |-> p]
  /\ UNCHANGED <<now, maxRequests, timeWindow, callers, recordedBy,
                 notRL>>

(* execute: await this.waitForAvailability() *)
Execute(p) ==
  /\ pc[p] = "idle"
  /\ CanBegin
  /\ waitForAvailabilityEnter(p, "exec_sleep", "exec_acquired")
  /\ recordedBy' = [recordedBy EXCEPT
                      ![p] = Len(requests') - Len(Prune(requests, now))]
  /\ returned' = NoReturn
  /\ UNCHANGED <<now, maxRequests, timeWindow, callers,
                 notRL>>

ExecuteWake(p) ==
  /\ pc[p] = "exec_sleep"
  /\ waitForAvailabilityResume(p, "exec_acquired")
  /\ recordedBy' = [recordedBy EXCEPT
                      ![p] = recordedBy[p] + Len(requests') - Len(requests)]
  /\ returned' = NoReturn
  /\ UNCHANGED <<now, maxRequests, timeWindow, callers, wakeAt,
                 notRL>>

(* execute: fn() is called *)
ExecuteInvoke(p) ==
  /\ pc[p] = "exec_acquired"
  /\ pc' = [pc EXCEPT ![p] = "exec_fn"]
  /\ returned' = NoReturn
  /\ UNCHANGED <<now, requests, maxRequests, timeWindow, callers, wakeAt,
                 recordedBy,
                 notRL>>

(* an execute that takes the record back when the operation fails *)
executeSettleRefund(p, outcome) ==
  /\ pc' = [pc EXCEPT ![p] = "idle"]
  /\ requests' = IF outcome = "ok" \/ requests = <<>> THEN requests
                 ELSE SubSeq(requests, 1, Len(requests) - 1)
  /\ returned' = [op |-> "execute", caller |-> p, fn |-> outcome,
                  settled |-> IF outcome = "ok" THEN "resolved" ELSE "rejected",
                  recorded |-> recordedBy[p]]

(* execute: return await fn() -- the promise of fn settles, and execute    *)
(* settles the same way; this.requests is not touched                      *)
executeSettle(p, outcome) ==
  /\ pc' = [pc EXCEPT ![p] = "idle"]
  /\ requests' = requests
  /\ returned' = [op |-> "execute", caller |-> p, fn |-> outcome,
                  settled |-> IF outcome = "ok" THEN "resolved" ELSE "rejected",
                  recorded |-> recordedBy[p]]

ExecuteReturn(p) ==
  /\ pc[p] = "exec_fn"
  /\ \E outcome \in {"ok", "fail"} : executeSettle(p, outcome)
  /\ recordedBy' = [recordedBy EXCEPT ![p] = 0]
  /\ wakeAt' = [wakeAt EXCEPT ![p] = 0]
  /\ UNCHANGED <<now, maxRequests, timeWindow, callers,
                 notRL>>

CanMakeRequest ==
  /\ requests' = Prune(requests, now)
  /\ returned' = [op |-> "canMakeRequest",
                  value |-> (Len(requests') < maxRequests)]
  /\ UNCHANGED <<now, maxRequests, timeWindow, callers, pc, wakeAt, recordedBy,
                 notRL>>

(* the value getUsageStats returns for the pruned list *)
usageStats(pruned) ==
  [op |-> "getUsageStats", current |-> Len(pruned), max |-> maxRequests,
   remaining |-> maxRequests - Len(pruned)]

GetUsageStats ==
  /\ requests' = Prune(requests, now)
  /\ returned' = usageStats(requests')
  /\ UNCHANGED <<now, maxRequests, timeWindow, callers, pc, wakeAt, recordedBy,
                 notRL>>

Reset ==
  /\ requests # <<>>
  /\ requests' = <<>>
  /\ returned' = NoReturn
  /\ UNCHANGED <<now, maxRequests, timeWindow, callers, pc, wakeAt, recordedBy,
                 notRL>>

(* the clock advances *)
Tick ==
  /\ now < MaxTime
  /\ now' = now + 1
  /\ returned' = NoReturn
  /\ UNCHANGED <<requests, maxRequests, timeWindow, callers, pc, wakeAt,
                 recordedBy,
                 notRL>>

RLNext ==
  \/ \E p \in callers : WaitForAvailability(p)
  \/ \E p \in callers : WaitForAvailabilityWake(p)
  \/ \E p \in callers : Execute(p)
  \/ \E p \in callers : ExecuteWake(p)
  \/ \E p \in callers : ExecuteInvoke(p)
  \/ \E p \in callers : ExecuteReturn(p)
  \/ CanMakeRequest
  \/ GetUsageStats
  \/ Reset
  \/ Tick

(* the limiter shared by concurrent callers *)
InitRL == RLInit(CallerIds) /\ backendDown = FALSE
SpecRL == InitRL /\ [][RLNext]_vars

(* the limiter used by one caller, one call after another *)
InitRL1 == RLInit({1}) /\ backendDown = FALSE
SpecRL1 == InitRL1 /\ [][RLNext]_vars

(* time passes, due timers fire and a granted call goes on to its operation *)
RLFairness ==
  /\ WF_vars(Tick)
  /\ \A p \in CallerIds : WF_vars(p \in callers /\ ExecuteWake(p))
  /\ \A p \in CallerIds : WF_vars(p \in callers /\ WaitForAvailabilityWake(p))
  /\ \A p \in CallerIds : WF_vars(p \in callers /\ ExecuteInvoke(p))

SpecRLFair == InitRL /\ [][RLNext]_vars /\ RLFairness

----------------------------------------------------------------------------
(* RateLimiter: properties *)

(* the caller slept in waitForAvailability during its execute in progress *)
Slept(p) == wakeAt[p] > 0

(* C5: with one caller issuing its calls one after another, the number of  *)
(* recorded calls whose timestamp lies within the trailing window is at    *)
(* most maxRequests at every moment.                                       *)
C5_WindowBounded == InWindow(requests, now) <= maxRequests

(* a call recorded after a sleep: the window is full again and the list    *)
(* still holds the stale timestamp the caller waited for                   *)
C5_Witness ==
  /\ InWindow(requests, now) = maxRequests
  /\ Len(requests) > maxRequests
  /\ \E p \in callers : pc[p] = "exec_acquired" /\ Slept(p)

(* C6: every execute records exactly one timestamp, and records it before  *)
(* the operation is invoked; the settling of the operation leaves the      *)
(* record in place, whether it succeeds or fails, and a failure of the     *)
(* operation is the failure of execute.                                    *)
C6_RecordedOnceBeforeInvoke ==
  /\ [](\A p \in callers :
          /\ pc[p] = "exec_sleep" => recordedBy[p] = 0
          /\ pc[p] \in {"exec_acquired", "exec_fn"} => recordedBy[p] = 1)
  /\ [](returned.op = "execute" =>
          /\ returned.recorded = 1
          /\ returned.settled = "rejected" <=> returned.fn = "fail")
  /\ [][\A p \in callers :
          pc[p] = "exec_fn" /\ pc'[p] = "idle" => requests' = requests]_vars

(* an execute whose operation failed after the caller had to sleep, with   *)
(* the record still in the list                                            *)
C6_Witness ==
  /\ returned.op = "execute"
  /\ returned.fn = "fail"
  /\ returned.recorded = 1
  /\ now \in {requests[i] : i \in 1..Len(requests)}

(* C7: getUsageStats().remaining equals max(0, maxRequests - current) in   *)
(* every reachable state, under any interleaving of the limiter's          *)
(* operations.                                                             *)
C7_RemainingClamped ==
  returned.op = "getUsageStats" =>
    returned.remaining = Max(0, maxRequests - returned.current)

(* C8: an execute that finds the window full is never turned away, and as  *)
(* time advances it records its call and invokes its operation.            *)
C8_FullWindowWaitsThenRuns ==
  /\ [](\A p \in callers : pc[p] # "rejected")
  /\ \A p \in CallerIds :
       (p \in callers /\ pc[p] = "exec_sleep")
         ~> (pc[p] = "exec_fn" /\ recordedBy[p] = 1)

(* a caller that slept on a full window and now runs its operation *)
C8_Witness == \E p \in callers : pc[p] = "exec_fn" /\ Slept(p)

(* the oldest timestamp of the window a sleeping caller waits for *)
AwaitedTimestamp(p) == wakeAt[p] - timeWindow - SafetyBuffer

(* C20: an execute called while maxRequests calls are recorded within the  *)
(* window suspends its caller for timeWindow - (now - oldest) + the buffer *)
(* of one second, oldest being the oldest timestamp of the window; the     *)
(* call is recorded, and its operation invoked, only after that timestamp  *)
(* has left the window.                                                    *)
C20_SuspendedUntilOldestLeaves ==
  /\ [][\A p \in callers :
          (pc[p] = "idle" /\ pc'[p] \in {"exec_sleep", "exec_acquired"}) =>
             IF InWindow(requests, now) >= maxRequests
             THEN /\ pc'[p] = "exec_sleep"
                  /\ wakeAt'[p] - now =
                       timeWindow - (now - MinOf(Prune(requests, now)))
                         + SafetyBuffer
                  /\ recordedBy'[p] = 0
             ELSE pc'[p] = "exec_acquired"]_vars
  /\ [][\A p \in callers :
          (pc[p] = "exec_sleep" /\ pc'[p] # "exec_sleep") =>
             /\ pc'[p] = "exec_acquired"
             /\ requests' = Append(requests, now)
             /\ now - AwaitedTimestamp(p) >= timeWindow
             /\ AwaitedTimestamp(p) \notin Range(Prune(requests', now))]_vars
  /\ [](\A p \in callers :
          (pc[p] \in {"exec_acquired", "exec_fn"} /\ Slept(p)) =>
             now - AwaitedTimestamp(p) >= timeWindow)

(* a caller suspended on a full window was resumed the moment its timer    *)
(* was due: its call is the newest record, and the timestamp it waited for *)
(* is still in the list, outside the window                                *)
C20_Witness ==
  \E p \in callers :
    /\ pc[p] = "exec_acquired"
    /\ Slept(p)
    /\ now = wakeAt[p]
    /\ requests[Len(requests)] = now
    /\ AwaitedTimestamp(p) \in Range(requests)
    /\ InWindow(requests, now) < Len(requests)


(* the step records a call of p: a timestamp is appended for it *)
Records(p) ==
  \/ pc[p] = "idle" /\ pc'[p] \in {"exec_acquired"}
  \/ pc[p] = "idle" /\ returned'.op = "waitForAvailability" /\ returned'.caller = p
  \/ pc[p] \in {"exec_sleep", "wfa_sleep"} /\ pc'[p] # pc[p]

(* C21: after its suspension waitForAvailability checks the window again   *)
(* before it records: a call is recorded only in a state where fewer than  *)
(* maxRequests timestamps remain within the window.                        *)
C21_RecordsOnlyWithRoom ==
  [][\A p \in callers :
       Records(p) => InWindow(requests, now) < maxRequests]_vars

(* C22: with two callers on the shared limiter the check of the window and *)
(* the append are separate steps when a wait is needed: the resumption     *)
(* after the wait appends its timestamp whatever the other caller recorded *)
(* in the meantime, and so does not keep the window within maxRequests.    *)
C22_ResumptionAppendsUnchecked ==
  [][\A p \in callers :
       (pc[p] \in {"exec_sleep", "wfa_sleep"} /\ pc'[p] # pc[p]) =>
          /\ requests' = Append(requests, now)
          /\ InWindow(requests', now) = InWindow(requests, now) + 1]_vars

(* two callers raced past the limit: more than maxRequests calls of one   *)
(* window are recorded, the newest by a caller of execute that had slept  *)
C22_Witness ==
  /\ Cardinality(callers) = 2
  /\ InWindow(requests, now) > maxRequests
  /\ requests[Len(requests)] = now
  /\ \E p \in callers : pc[p] = "exec_acquired" /\ Slept(p) /\ recordedBy[p] = 1

----------------------------------------------------------------------------
(* Categorizer: a batch run of classifyActivities, then groupByCategory *)

RECURSIVE SeqsUpTo(_, _)
SeqsUpTo(S, n) ==
  IF n = 0 THEN {<<>>}
  ELSE LET shorter == SeqsUpTo(S, n - 1)
       IN shorter \cup {Append(q, x) : q \in {r \in shorter : Len(r) = n - 1}, x \in S}

InitCat ==
  /\ RLInit({1})
  /\ maxRequests = 1
  /\ timeWindow = 2
  /\ backendDown = FALSE

CatStart ==
  /\ cpc = "idle"
  /\ activities' \in SeqsUpTo(ActivityTexts, MaxBatch)
  /\ source' \in BatchSourceKinds
  /\ categorizedActivities' = <<>>
  /\ backendLog' = <<>>
  /\ cpc' = "classifying"
  /\ UNCHANGED <<classified, grouped, notCat>>

(* a loop body without the inner recovery: an item whose model call fails  *)
(* is dropped                                                              *)
ClassifyNextDropFailed ==
  /\ cpc = "classifying"
  /\ Len(backendLog) < Len(activities)
  /\ \E outcome \in Backend(ClassificationOutcomes) :
       LET activity == activities[Len(backendLog) + 1] IN
       /\ classified' = classifyActivityTable[activity, outcome]
       /\ categorizedActivities' =
            IF outcome.kind = "error" THEN categorizedActivities
            ELSE Append(categorizedActivities,
                        categorizeTable[activity, source, outcome])
       /\ backendLog' = Append(backendLog, outcome.kind)
  /\ UNCHANGED <<activities, source, grouped, cpc, notCat>>

(* one pass of the for loop of classifyActivities *)
ClassifyNext ==
  /\ cpc = "classifying"
  /\ Len(backendLog) < Len(activities)
  /\ \E outcome \in Backend(ClassificationOutcomes) :
       LET activity == activities[Len(backendLog) + 1] IN
       /\ classified' = classifyActivityTable[activity, outcome]
       /\ categorizedActivities' =
            Append(categorizedActivities,
                   categorizeTable[activity, source, outcome])
       /\ backendLog' = Append(backendLog, outcome.kind)
  /\ UNCHANGED <<activities, source, grouped, cpc, notCat>>

(* classifyActivities returns categorizedActivities *)
ClassifyReturn ==
  /\ cpc = "classifying"
  /\ Len(backendLog) = Len(activities)
  /\ cpc' = "classified"
  /\ UNCHANGED <<activities, source, categorizedActivities, backendLog,
                 classified, grouped, notCat>>

GroupByCategory ==
  /\ cpc = "classified"
  /\ grouped' = groupByCategory(categorizedActivities)
  /\ cpc' = "grouped"
  /\ UNCHANGED <<activities, source, categorizedActivities, backendLog,
                 classified, notCat>>

CatNext ==
  \/ CatStart
  \/ ClassifyNext
  \/ ClassifyReturn
  \/ GroupByCategory

SpecCat == InitCat /\ [][CatNext]_vars

----------------------------------------------------------------------------
(* Categorizer: properties *)

(* C1: for every activity text and every outcome of the model call (a      *)
(* valid label, any other text, an empty text, an error) classifyActivity  *)
(* returns one of the eight taxonomy values and does not throw.            *)
C1_ClassifyInTaxonomy ==
  classified # NoClassified =>
    /\ ~classified.threw
    /\ classified.value \in
         {"feature", "fix", "refactor", "docs", "test", "chore", "performance",
          "security"}

(* the model answered a text outside the taxonomy and the keyword rules    *)
(* decided                                                                 *)
C1_Witness ==
  /\ backendLog # <<>>
  /\ backendLog[Len(backendLog)] = "text"
  /\ classified.value = "chore"
  /\ activities[Len(backendLog)] = "Bump deps"

(* C9: classifyActivities is order-preserving and one-to-one: the output   *)
(* has the length of the input, its i-th element carries the i-th input as *)
(* originalText and the given source kind, and the pass for one item, also *)
(* one whose model call fails, appends that item's result and leaves the   *)
(* results of the other items as they are.                                 *)
C9_BatchOneToOne ==
  /\ [](cpc \in {"classified", "grouped"} =>
          /\ Len(categorizedActivities) = Len(activities)
          /\ \A i \in 1..Len(activities) :
               /\ categorizedActivities[i].originalText = activities[i]
               /\ categorizedActivities[i].source = source
               /\ categorizedActivities[i].category \in Taxonomy)
  /\ [][cpc = "classifying" /\ backendLog' # backendLog =>
          /\ Len(categorizedActivities') = Len(backendLog')
          /\ SubSeq(categorizedActivities', 1, Len(categorizedActivities))
               = categorizedActivities]_vars

(* a finished batch in which the model call failed for the middle item and *)
(* answered for its neighbours                                             *)
C9_Witness ==
  /\ cpc = "classified"
  /\ Len(activities) = 3
  /\ backendLog = <<"text", "error", "text">>
  /\ activities[1] # activities[2]

RECURSIVE SumOfLengths(_, _)
SumOfLengths(g, cats) ==
  IF cats = <<>> THEN 0 ELSE Len(g[Head(cats)]) + SumOfLengths(g, Tail(cats))

(* C10: each bucket of groupByCategory is exactly the subsequence of the   *)
(* input whose category is the bucket's key, in input order, so the        *)
(* buckets together hold every input item once.                            *)
C10_GroupingIsPartition ==
  cpc = "grouped" =>
    /\ DOMAIN grouped = Taxonomy
    /\ \A c \in Taxonomy :
         grouped[c] = SelectSeq(categorizedActivities, LAMBDA a : a.category = c)
    /\ SumOfLengths(grouped, validCategories) = Len(categorizedActivities)

(* a grouping of three items, the first and the third in one bucket and    *)
(* the second in another                                                   *)
C10_Witness ==
  /\ cpc = "grouped"
  /\ Len(categorizedActivities) = 3
  /\ categorizedActivities[1].category = categorizedActivities[3].category
  /\ categorizedActivities[1].category # categorizedActivities[2].category
  /\ categorizedActivities[1] # categorizedActivities[3]
  /\ Len(grouped[categorizedActivities[1].category]) = 2

----------------------------------------------------------------------------
(* The optimized single-call analysis and the analyze route *)
(*   WeeklyUpdateAIAgent   src/weekly-update-assistant/src/ai-agent/       *)
(*                         notionProcessor.ts                              *)
(*   analyzeGitHubActivity src/weekly-update-assistant/src/lib/ai.ts       *)
(*   POST                  src/weekly-update-assistant/src/app/api/        *)
(*                         analyze/route.ts                                *)

(* Date.now() in milliseconds, as it is written into an id *)
DateNow(t) == ToString(t * 1000)

(* JSON.parse(cleanedText), achievements.length, achievements.map(...):    *)
(* null has no length and only an array has map                            *)
mapAchievements(text, idPrefix, t) ==
  With(JSONparse(text), LAMBDA parsed :
    IF parsed.threw \/ parsed.value.t # "arr" THEN Threw
    ELSE Returned([i \in 1..Len(parsed.value.v) |->
                     [id |-> idPrefix \o DateNow(t) \o "-" \o ToString(i - 1),
                      text |-> parsed.value.v[i],
                      selected |-> TRUE,
                      source |-> "github"]]))

(* a fallback that reports the GitHub activity only *)
createBasicFallbackAchievementsGitHubOnly(data, additionalContext, t) ==
  LET first == IF Len(data.commits) > 0
               THEN <<[id |-> "basic-" \o DateNow(t) \o "-0",
                       text |-> JStr("Completed " \o ToString(Len(data.commits))
                                \o " code commits with various improvements and updates."),
                       selected |-> TRUE, source |-> "github"]>>
               ELSE <<>>
  IN IF Len(data.pullRequests) > 0
     THEN Append(first,
                 [id |-> "basic-" \o DateNow(t) \o "-" \o ToString(Len(first)),
                  text |-> JStr("Submitted " \o ToString(Len(data.pullRequests))
                           \o " pull request(s) for code review and integration."),
                  selected |-> TRUE, source |-> "github"])
     ELSE first

createBasicFallbackAchievements(data, additionalContext, t) ==
  LET first == IF Len(data.commits) > 0
               THEN <<[id |-> "basic-" \o DateNow(t) \o "-0",
                       text |-> JStr("Completed " \o ToString(Len(data.commits))
                                \o " code commits with various improvements and updates."),
                       selected |-> TRUE, source |-> "github"]>>
               ELSE <<>>
      second == IF Len(data.pullRequests) > 0
                THEN Append(first,
                       [id |-> "basic-" \o DateNow(t) \o "-" \o ToString(Len(first)),
                        text |-> JStr("Submitted " \o ToString(Len(data.pullRequests))
                                 \o " pull request(s) for code review and integration."),
                        selected |-> TRUE, source |-> "github"])
                ELSE first
      third == IF additionalContext # ""
               THEN Append(second,
                      [id |-> "basic-" \o DateNow(t) \o "-" \o ToString(Len(second)),
                       text |-> JStr("Documented research findings and additional project context for team reference."),
                       selected |-> TRUE, source |-> "github"])
               ELSE second
  IN IF Len(third) = 0
     THEN <<[id |-> "basic-" \o DateNow(t) \o "-0",
             text |-> JStr("Maintained ongoing development work and project documentation."),
             selected |-> TRUE, source |-> "github"]>>
     ELSE third

(* an optimizedSingleCallAnalysis that lets its failure through to its     *)
(* caller, whose own fallback then takes over                              *)
optimizedSingleCallAnalysisRethrow(data, additionalContext, outcome, t) ==
  IF outcome.kind = "error" THEN Threw
  ELSE mapAchievements(stripCodeFence(trim(outcome.text)), "ai-optimized-", t)

(* optimizedSingleCallAnalysis once execute has settled: the rest of the   *)
(* try block, then the catch block                                         *)
optimizedSingleCallAnalysis(data, additionalContext, outcome, t) ==
  With(IF outcome.kind = "error" THEN Threw
       ELSE mapAchievements(stripCodeFence(trim(outcome.text)),
                            "ai-optimized-", t),
       LAMBDA tried :
    IF tried.threw
    THEN Returned(createBasicFallbackAchievements(data, additionalContext, t))
    ELSE tried)

(* quickAnalyze: the catch block logs and throws the error again *)
quickAnalyze(data, additionalContext, outcome, t) ==
  With(optimizedSingleCallAnalysis(data, additionalContext, outcome, t),
       LAMBDA result : IF result.threw THEN Threw ELSE result)

(* fallbackAnalysis of lib/ai.ts: its own model call, then the final       *)
(* fallback without a default achievement                                  *)
fallbackAnalysis(data, additionalContext, outcome, t) ==
  LET commits == IF Len(data.commits) > 0
                 THEN <<[id |-> "basic-" \o DateNow(t) \o "-0",
                         text |-> JStr("Completed " \o ToString(Len(data.commits))
                                  \o " code commits with various improvements and fixes."),
                         selected |-> TRUE, source |-> "github"]>>
                 ELSE <<>>
      prs == IF Len(data.pullRequests) > 0
             THEN <<[id |-> "basic-" \o DateNow(t) \o "-1",
                     text |-> JStr("Submitted " \o ToString(Len(data.pullRequests))
                              \o " pull request(s) for code review and integration."),
                     selected |-> TRUE, source |-> "github"]>>
             ELSE <<>>
      context == IF additionalContext # ""
                 THEN <<[id |-> "basic-" \o DateNow(t) \o "-2",
                         text |-> JStr("Documented research findings and additional project context."),
                         selected |-> TRUE, source |-> "github"]>>
                 ELSE <<>>
  IN With(IF outcome.kind = "error" THEN Threw
          ELSE mapAchievements(trim(stripCodeFence(trim(outcome.text))),
                               "ai-fallback-", t),
          LAMBDA tried :
            IF tried.threw THEN Returned(commits \o prs \o context) ELSE tried)

(* analyzeGitHubActivity: quickAnalyze, and fallbackAnalysis if it throws *)
analyzeGitHubActivity(data, additionalContext, outcome, fallbackOutcome, t) ==
  With(quickAnalyze(data, additionalContext, outcome, t), LAMBDA result :
    IF result.threw
    THEN fallbackAnalysis(data, additionalContext, fallbackOutcome, t)
    ELSE result)

(* The requests the model sends: complete ones, whose notes are absent,   *)
(* blank or a text, with or without a PDF file, and ones that lack one    *)
(* required field.                                                        *)
Dates == {"2024-01-01", "2024-01-07"}

CompleteBodies ==
  [accessToken : {"gho_token"},
   repoUrl : {"hwrdyen/Weeklypedia"},
   startDate : Dates,
   endDate : Dates,
   notionContent : NotionTexts,
   pdfFiles : {0, 1}]

RequiredFields == {"accessToken", "repoUrl", "startDate", "endDate"}

RequestBodies ==
  CompleteBodies
  \cup {[[accessToken |-> "gho_token", repoUrl |-> "hwrdyen/Weeklypedia",
          startDate |-> "2024-01-01", endDate |-> "2024-01-07",
          notionContent |-> "Studied the caching methodology.",
          pdfFiles |-> 0] EXCEPT ![f] = ""] : f \in RequiredFields}

(* fetchGitHubData delivers, or throws *)
FetchOutcomes ==
  {[kind |-> "error", data |-> NoGitHubData]}
  \cup {[kind |-> "data", data |-> [commits |-> c, pullRequests |-> p]] :
          c \in CommitBatches, p \in PullRequestBatches}

(* What the model call of the optimized analysis can do: throw, or answer *)
(* a text.                                                                *)
OptimizedAnswers ==
  {"[\"Shipped CSV export\", \"Fixed a parser crash\"]",
   Fence \o "json\n[\"Shipped CSV export\"]\n" \o Fence,
   "[]", "", "I could not find any activity.", "null",
   "{\"achievements\": [\"Shipped CSV export\"]}", "[1]"}

OptimizedOutcomes ==
  {BackendError} \cup {[kind |-> "text", text |-> a] : a \in OptimizedAnswers}

(* the informational achievement of a request without data *)
noDataAchievement(startDate, endDate) ==
  [id |-> "no-data-found",
   text |-> JStr("No code changes, pull requests, or additional notes were found within the specified timeframe ("
                 \o startDate \o " to " \o endDate
                 \o "). Consider expanding your date range or checking if there was any repository activity during this period."),
   selected |-> TRUE,
   source |-> "system"]

(* a check of the notes that takes white space for content *)
hasNotionContentUntrimmed(notionContent) == notionContent # ""

hasCommits(data) == Len(data.commits) > 0
hasPRs(data) == Len(data.pullRequests) > 0
hasNotionContent(notionContent) ==
  notionContent # "" /\ Len(trim(notionContent)) > 0

(* the answers of the route *)
Ok(achievements) ==
  [status |-> 200, achievements |-> achievements, error |-> "", details |-> ""]

MissingParameters ==
  [status |-> 400, achievements |-> <<>>,
   error |-> "Missing required parameters", details |-> ""]

(* the answer of the catch block: details is the message of the error *)
Failed(message) ==
  [status |-> 500, achievements |-> <<>>,
   error |-> "Failed to analyze GitHub data", details |-> message]

(* the messages of the errors that can reach the catch block *)
FetchErrorMessage == "fetchGitHubData failed"
AnalysisErrorMessage == "analyzeGitHubActivity failed"

(* The pure functions over the inputs of the model, each computed once *)
hasNotionContentTable == [n \in NotionTexts |-> hasNotionContent(n)]

noDataAchievementTable ==
  [s \in Dates, e \in Dates |-> noDataAchievement(s, e)]

analysisTable ==
  [c \in CommitBatches, p \in PullRequestBatches, n \in NotionTexts,
   o \in OptimizedOutcomes, t \in 0..MaxTime |->
     analyzeGitHubActivity([commits |-> c, pullRequests |-> p], n, o,
                           BackendError, t)]

(* POST: the body is read and the required parameters are checked *)
Post(body) ==
  /\ rpc = "idle"
  /\ pc[1] = "idle"
  /\ CanBegin
  /\ request' = body
  /\ githubData' = NoGitHubData
  /\ generationCalls' = 0
  /\ IF body.accessToken = "" \/ body.repoUrl = "" \/ body.startDate = ""
        \/ body.endDate = ""
     THEN /\ response' = MissingParameters
          /\ rpc' = "idle"
     ELSE /\ response' = NoResponse
          /\ rpc' = "fetching"
  /\ returned' = NoReturn
  /\ UNCHANGED <<now, requests, maxRequests, timeWindow, callers, pc, wakeAt,
                 recordedBy, backendDown, catVars, agentVars, callVars>>

(* POST: fetchGitHubData throws *)
PostFetchFailed ==
  /\ rpc = "fetching"
  /\ response' = Failed(FetchErrorMessage)
  /\ rpc' = "idle"
  /\ returned' = NoReturn
  /\ UNCHANGED <<now, requests, maxRequests, timeWindow, callers, pc, wakeAt,
                 recordedBy, request, githubData, backendDown,
                 generationCalls, catVars, agentVars, callVars>>

(* POST: fetchGitHubData returns nothing and the notes are blank *)
PostNoData ==
  /\ rpc = "fetching"
  /\ \E o \in FetchOutcomes :
       /\ o.kind = "data"
       /\ ~hasCommits(o.data) /\ ~hasPRs(o.data)
       /\ ~hasNotionContentTable[request.notionContent]
       /\ githubData' = o.data
  /\ response' =
       Ok(<<noDataAchievementTable[request.startDate, request.endDate]>>)
  /\ rpc' = "idle"
  /\ returned' = NoReturn
  /\ UNCHANGED <<now, requests, maxRequests, timeWindow, callers, pc, wakeAt,
                 recordedBy, request, backendDown, generationCalls, catVars, agentVars, callVars>>

(* POST: there is data, and analyzeGitHubActivity runs through            *)
(* quickAnalyze (getUsageStats prunes the requests, as waitForAvailability *)
(* does again at the same instant) and optimizedSingleCallAnalysis up to   *)
(* the await of execute                                                    *)
PostAnalyze ==
  /\ rpc = "fetching"
  /\ \E o \in FetchOutcomes :
       /\ o.kind = "data"
       /\ \/ hasCommits(o.data)
          \/ hasPRs(o.data)
          \/ hasNotionContentTable[request.notionContent]
       /\ githubData' = o.data
  /\ rpc' = "analyzing"
  /\ waitForAvailabilityEnter(1, "opt_sleep", "opt_acquired")
  /\ recordedBy' = [recordedBy EXCEPT
                      ![1] = Len(requests') - Len(Prune(requests, now))]
  /\ returned' = NoReturn
  /\ UNCHANGED <<now, maxRequests, timeWindow, callers, request, response,
                 backendDown, generationCalls, catVars, agentVars, callVars>>

(* the timer of waitForAvailability fires *)
OptimizedWake ==
  /\ rpc = "analyzing"
  /\ pc[1] = "opt_sleep"
  /\ waitForAvailabilityResume(1, "opt_acquired")
  /\ recordedBy' = [recordedBy EXCEPT
                      ![1] = recordedBy[1] + Len(requests') - Len(requests)]
  /\ returned' = NoReturn
  /\ UNCHANGED <<now, maxRequests, timeWindow, callers, wakeAt, routeVars,
                 catVars, agentVars, callVars>>

(* execute calls the operation: this.model.generateContent(prompt) *)
OptimizedInvoke ==
  /\ rpc = "analyzing"
  /\ pc[1] = "opt_acquired"
  /\ pc' = [pc EXCEPT ![1] = "opt_fn"]
  /\ generationCalls' = generationCalls + 1
  /\ returned' = NoReturn
  /\ UNCHANGED <<now, requests, maxRequests, timeWindow, callers, wakeAt,
                 recordedBy, request, githubData, response, backendDown, rpc,
                 catVars, agentVars, callVars>>

(* the model call settles; the analysis returns and the route answers *)
OptimizedSettle ==
  /\ rpc = "analyzing"
  /\ pc[1] = "opt_fn"
  /\ \E o \in Backend(OptimizedOutcomes) :
       /\ executeSettle(1, IF o.kind = "error" THEN "fail" ELSE "ok")
       /\ response' =
            With(analysisTable[githubData.commits, githubData.pullRequests,
                               request.notionContent, o, now],
                 LAMBDA achievements :
                   IF achievements.threw THEN Failed(AnalysisErrorMessage)
                   ELSE Ok(achievements.value))
  /\ rpc' = "idle"
  /\ recordedBy' = [recordedBy EXCEPT ![1] = 0]
  /\ wakeAt' = [wakeAt EXCEPT ![1] = 0]
  /\ UNCHANGED <<now, maxRequests, timeWindow, callers, request, githubData,
                 backendDown, generationCalls, catVars, agentVars, callVars>>

AnalyzeNext ==
  \/ \E body \in RequestBodies : Post(body)
  \/ PostFetchFailed
  \/ PostNoData
  \/ PostAnalyze
  \/ OptimizedWake
  \/ OptimizedInvoke
  \/ OptimizedSettle
  \/ Tick

(* one request at a time, and a limiter of one call per window, so that   *)
(* a request that follows another finds the window full                   *)
InitAnalyze ==
  /\ RLInit({1})
  /\ maxRequests = 1
  /\ timeWindow = 2
  /\ backendDown \in BOOLEAN
SpecAnalyze == InitAnalyze /\ [][AnalyzeNext]_vars

----------------------------------------------------------------------------
(* Properties of the analyze route *)

(* the request has been answered, and fetchGitHubData had delivered *)
Answered ==
  /\ rpc = "idle"
  /\ response.status \in {200, 500}
  /\ response.details # FetchErrorMessage

(* C2: with the generation backend failing on every call, the analysis of *)
(* an input with at least one commit, pull request or supplementary text  *)
(* answers a non-empty list of achievements and no error.                 *)
C2_BackendDownStillAnswers ==
  (/\ backendDown
   /\ Answered
   /\ \/ Len(githubData.commits) > 0
      \/ Len(githubData.pullRequests) > 0
      \/ request.notionContent # "")
  => (response.status = 200 /\ Len(response.achievements) > 0)

(* notes only, the backend down: the fallback achievement is answered *)
C2_Witness ==
  /\ backendDown
  /\ Answered
  /\ generationCalls = 1
  /\ githubData = NoGitHubData
  /\ request.notionContent = "Studied the caching methodology."
  /\ response.status = 200
  /\ Len(response.achievements) = 1

(* the request had no commits, no pull requests and blank notes *)
NoDataFound ==
  /\ Answered
  /\ Len(githubData.commits) = 0
  /\ Len(githubData.pullRequests) = 0
  /\ trim(request.notionContent) = ""

(* C4: a request with zero commits, zero pull requests and empty or       *)
(* whitespace-only notes is answered with exactly one achievement, of id  *)
(* no-data-found, whose text names the start and end dates of the         *)
(* request; no generation call is made for it, and from its arrival to    *)
(* its answer nothing is recorded in the rate limiter.                    *)
C4_NoDataShortCircuit ==
  /\ [](NoDataFound =>
          /\ response.status = 200
          /\ Len(response.achievements) = 1
          /\ response.achievements[1].id = "no-data-found"
          /\ includes(response.achievements[1].text.v, request.startDate)
          /\ includes(response.achievements[1].text.v, request.endDate)
          /\ generationCalls = 0)
  /\ [][(rpc = "idle" /\ rpc' = "fetching") => requests' = requests]_vars
  /\ [][(rpc = "fetching" /\ NoDataFound') =>
          (requests' = requests /\ pc' = pc /\ generationCalls' = 0)]_vars

(* blank notes and a PDF file, after an earlier request was recorded *)
C4_Witness ==
  /\ NoDataFound
  /\ request.notionContent = "  \n"
  /\ request.pdfFiles = 1
  /\ request.startDate # request.endDate
  /\ requests # <<>>
  /\ response.achievements[1].id = "no-data-found"

(* the request had a commit, a pull request or notes, and was answered *)
AnalysisAnswered ==
  /\ Answered
  /\ \/ hasCommits(githubData)
     \/ hasPRs(githubData)
     \/ hasNotionContentTable[request.notionContent]

(* C24: the optimized path makes at most one generation call for a        *)
(* request, and makes it through the limiter, which has recorded the      *)
(* timestamp of the call before; when the call fails or its answer does   *)
(* not parse, the achievements answered are those of                      *)
(* createBasicFallbackAchievements and no further call is made.           *)
C24_OneCallThroughLimiter ==
  /\ [](generationCalls <= 1)
  /\ [][generationCalls' # generationCalls =>
          \/ generationCalls' = 0
          \/ /\ pc[1] = "opt_acquired"
             /\ recordedBy[1] = 1
             /\ requests # <<>>
             /\ requests' = requests]_vars
  /\ [](AnalysisAnswered =>
          /\ generationCalls = 1
          /\ response.status = 200
          /\ \/ /\ ~backendDown
                /\ \A i \in 1..Len(response.achievements) :
                     startsWith(response.achievements[i].id, "ai-optimized-")
             \/ \E t \in 0..now :
                  response.achievements =
                    createBasicFallbackAchievements(githubData,
                                                    request.notionContent, t))

(* a request with a commit was answered from the fallback after its one   *)
(* call, which had to wait for a slot, although the backend is up         *)
C24_Witness ==
  /\ AnalysisAnswered
  /\ ~backendDown
  /\ hasCommits(githubData)
  /\ generationCalls = 1
  /\ Len(requests) > 1
  /\ Len(response.achievements) > 0
  /\ startsWith(response.achievements[1].id, "basic-")

(* C28: for a request with at least one commit, pull request or notes the *)
(* optimized analysis answers at least one achievement whatever text the  *)
(* backend returns, a well-formed empty JSON array included.              *)
C28_AtLeastOneAchievement ==
  AnalysisAnswered =>
    (response.status = 200 /\ Len(response.achievements) >= 1)

----------------------------------------------------------------------------
(* WeeklyUpdateAIAgent: the entry points analyzeActivity, quickAnalyze    *)
(* and generateEmailContent, called directly.  The Categorizer, the       *)
(* Summarizer and the NotionProcessor call the model themselves;          *)
(* quickAnalyze and generateEmailContent call it through the limiter.     *)

(* the inputs of the calls: nothing at all; commits and pull requests;    *)
(* commits only; notes only; blank notes and an additional context        *)
AgentInputs ==
  {NoInput,
   [githubData |->
      [commits |-> <<"fix: null pointer in parser">>,
       pullRequests |->
         <<[number |-> 7, title |-> "Speed up cache", body |-> "BREAKING"]>>],
    notionContent |-> "", additionalContext |-> ""],
   [githubData |->
      [commits |-> <<"fix: null pointer in parser", "feat: add CSV export">>,
       pullRequests |-> <<>>],
    notionContent |-> "", additionalContext |-> ""],
   [githubData |-> [commits |-> <<>>, pullRequests |-> <<>>],
    notionContent |-> "Studied the caching methodology.",
    additionalContext |-> ""],
   [githubData |-> [commits |-> <<>>, pullRequests |-> <<>>],
    notionContent |-> "  \n",
    additionalContext |->
      "Found a critical race in checkout; fixed it in the payment flow"]}

(* the summaries generateEmailContent is called with *)
EmailSummaries ==
  {emptySummary,
   [Features |-> <<"Shipped CSV export">>, Fixes |-> <<"Resolved a crash">>,
    Refactors |-> <<>>, Highlights |-> <<"Shipped CSV export">>,
    Notes |-> <<>>]}

EmailDateRange == "from 1/1/2024 to 1/7/2024"

(* what the model call of generateEmailContent can do *)
EmailAnswers == {"", "  Subject: Weekly Update\n\nHi team,\n  "}

EmailOutcomes ==
  {BackendError} \cup {[kind |-> "text", text |-> a] : a \in EmailAnswers}

(* the bullet U+2022 of the fallback email, written as an asterisk *)
Bullet == "*"

RECURSIVE joinLines(_)
joinLines(lines) ==
  IF lines = <<>> THEN ""
  ELSE IF Len(lines) = 1 THEN Head(lines)
  ELSE Head(lines) \o "\n" \o joinLines(Tail(lines))

(* WeeklyUpdateAIAgent.createBasicEmailFallback *)
createBasicEmailFallback(summary, dateRange) ==
  LET allAchievements ==
        summary.Features \o summary.Fixes \o summary.Refactors
        \o summary.Highlights \o summary.Notes
  IN "Subject: Weekly Update - " \o dateRange
     \o "\n\nHi [Manager],\n\nI wanted to share a quick update on my progress "
     \o dateRange \o ":\n\n"
     \o joinLines([i \in 1..Len(allAchievements) |->
                     Bullet \o " " \o allAchievements[i]])
     \o "\n\nPlease let me know if you have any questions or need additional details."
     \o "\n\nBest regards,\n[Your name]"

(* generateEmailContent: the try block, then the catch block *)
generateEmailContent(summary, dateRange, outcome) ==
  IF outcome.kind = "error"
  THEN Returned(createBasicEmailFallback(summary, dateRange))
  ELSE Returned(trim(outcome.text))

quickAnalyzeTable ==
  [in \in AgentInputs, o \in OptimizedOutcomes, t \in 0..MaxTime |->
     quickAnalyze(in.githubData, in.additionalContext, o, t)]

generateEmailContentTable ==
  [summary \in EmailSummaries, o \in EmailOutcomes |->
     generateEmailContent(summary, EmailDateRange, o)]

originalTexts(acts) == [i \in 1..Len(acts) |-> acts[i].originalText]

(* a call of classifyActivities begins *)
classifyActivitiesBegin(texts, kind) ==
  /\ activities' = texts
  /\ source' = kind
  /\ categorizedActivities' = <<>>
  /\ backendLog' = <<>>
  /\ cpc' = "classifying"
  /\ UNCHANGED <<classified, grouped>>

(* the loop of classifyActivities has run through *)
classifyActivitiesDone ==
  /\ cpc = "classifying"
  /\ Len(backendLog) = Len(activities)

(* the call of classifyActivities has returned *)
classifyActivitiesEnd ==
  /\ activities' = <<>>
  /\ source' = "commit"
  /\ categorizedActivities' = <<>>
  /\ backendLog' = <<>>
  /\ classified' = NoClassified
  /\ cpc' = "idle"
  /\ UNCHANGED grouped

(* analyzeActivity is called and enters processAllSources *)
AnalyzeActivity(in) ==
  /\ apc = "idle"
  /\ pc[1] = "idle"
  /\ input' = in
  /\ apc' = "source"
  /\ stage' = 1
  /\ allActivities' = <<>>
  /\ weeklySummary' = emptySummary
  /\ agentResult' = NoResult
  /\ returned' = NoReturn
  /\ UNCHANGED <<callVars, now, requests, maxRequests, timeWindow, callers, pc, wakeAt,
                 recordedBy, catVars, routeVars>>

(* processAllSources: the commits, then the pull requests; a source       *)
(* without items is passed over                                           *)
ProcessGitHub ==
  /\ apc = "source"
  /\ stage \in {1, 2}
  /\ LET texts == IF stage = 1 THEN input.githubData.commits
                  ELSE prDescriptions(input.githubData.pullRequests)
     IN IF Len(texts) > 0
        THEN /\ classifyActivitiesBegin(texts, IF stage = 1 THEN "commit" ELSE "pr")
             /\ apc' = "classifying"
             /\ stage' = stage
        ELSE /\ apc' = "source"
             /\ stage' = stage + 1
             /\ UNCHANGED catVars
  /\ returned' = NoReturn
  /\ UNCHANGED <<callVars, now, requests, maxRequests, timeWindow, callers, pc, wakeAt,
                 recordedBy, routeVars, input, allActivities, weeklySummary,
                 agentResult>>

(* processAllSources: the notes, then the additional context: the three   *)
(* extractions of processTextContent, convertToAchievements, and the      *)
(* call of classifyActivities                                             *)
ProcessContent ==
  /\ apc = "source"
  /\ stage \in {3, 4}
  /\ LET content == IF stage = 3 THEN input.notionContent
                    ELSE input.additionalContext
     IN IF content # ""
        THEN \E a \in Backend(ExtractionOutcomes),
                i \in Backend(ExtractionOutcomes),
                l \in Backend(ExtractionOutcomes) :
               /\ classifyActivitiesBegin(
                    notionAchievementsTable[content, a, i, l],
                    IF stage = 3 THEN "notion" ELSE "manual")
               /\ apc' = "classifying"
               /\ stage' = stage
        ELSE /\ apc' = IF stage = 4 THEN "summary" ELSE "source"
             /\ stage' = stage + 1
             /\ UNCHANGED catVars
  /\ returned' = NoReturn
  /\ UNCHANGED <<callVars, now, requests, maxRequests, timeWindow, callers, pc, wakeAt,
                 recordedBy, routeVars, input, allActivities, weeklySummary,
                 agentResult>>

(* processAllSources: allActivities.push(...) of what classifyActivities  *)
(* returned                                                               *)
SourceClassified ==
  /\ apc = "classifying"
  /\ classifyActivitiesDone
  /\ allActivities' = allActivities \o categorizedActivities
  /\ classifyActivitiesEnd
  /\ apc' = IF stage = 4 THEN "summary" ELSE "source"
  /\ stage' = stage + 1
  /\ returned' = NoReturn
  /\ UNCHANGED <<callVars, now, requests, maxRequests, timeWindow, callers, pc, wakeAt,
                 recordedBy, routeVars, input, weeklySummary, agentResult>>

(* createWeeklySummary: the commit messages, the descriptions of the     *)
(* pull requests, and the activities extracted from the notes or, when   *)
(* there are none, the additional context                                *)
allActivityTexts(in, outcome) ==
  LET content == IF in.notionContent # "" THEN in.notionContent
                 ELSE in.additionalContext
  IN in.githubData.commits
     \o prDescriptions(in.githubData.pullRequests)
     \o (IF content # ""
         THEN extractActivitiesFromContentTable[content, outcome]
         ELSE <<>>)

(* createComprehensiveSummary calls createWeeklySummary: the activities   *)
(* of the content are extracted, and generateStructuredSummary either     *)
(* parses the answer of its call or turns to fallbackStructuredSummary    *)
CreateWeeklySummary ==
  /\ apc = "summary"
  /\ \E oe \in Backend(ExtractionOutcomes), os \in Backend(SummaryOutcomes) :
       \E all \in {allActivityTexts(input, oe)},
          tried \in {parseStructuredSummaryTable[os]} :
         IF all = <<>>
         THEN /\ weeklySummary' = emptySummary
              /\ apc' = "highlights"
              /\ UNCHANGED catVars
         ELSE IF ~tried.threw
         THEN /\ weeklySummary' = tried.value
              /\ apc' = "highlights"
              /\ UNCHANGED catVars
         ELSE /\ classifyActivitiesBegin(all, "commit")
              /\ weeklySummary' = weeklySummary
              /\ apc' = "summaryFallback"
  /\ returned' = NoReturn
  /\ UNCHANGED <<callVars, now, requests, maxRequests, timeWindow, callers, pc, wakeAt,
                 recordedBy, routeVars, input, stage, allActivities,
                 agentResult>>

(* how analyzeActivity ends when a step of it throws: its catch block     *)
(* throws a new Error                                                     *)
analyzeActivityThrows ==
  /\ agentResult' = [entry |-> "analyzeActivity", threw |-> TRUE,
                     value |-> <<>>]
  /\ weeklySummary' = emptySummary
  /\ allActivities' = <<>>
  /\ stage' = 0
  /\ apc' = "idle"

(* fallbackStructuredSummary after its call of classifyActivities: the    *)
(* groups are mapped and the highlights extracted                         *)
FallbackStructuredSummary ==
  /\ apc = "summaryFallback"
  /\ classifyActivitiesDone
  /\ \E oh \in Backend(ExtractionOutcomes) :
       \E highlights \in {extractHighlights(activities, oh)},
          mapped \in {mapToWeeklySummaryCategories(
                        groupByCategory(categorizedActivities))} :
         IF highlights.threw
         THEN analyzeActivityThrows
         ELSE /\ weeklySummary' =
                   [Features |-> mapped.Features, Fixes |-> mapped.Fixes,
                    Refactors |-> mapped.Refactors,
                    Highlights |-> highlights.value, Notes |-> <<>>]
              /\ apc' = "highlights"
              /\ UNCHANGED <<stage, allActivities, agentResult>>
  /\ classifyActivitiesEnd
  /\ returned' = NoReturn
  /\ UNCHANGED <<callVars, now, requests, maxRequests, timeWindow, callers, pc, wakeAt,
                 recordedBy, routeVars, input>>

(* the output of analyzeActivity *)
Output(summary, acts) ==
  [weeklySummary |-> summary,
   categorizedActivities |-> acts,
   metadata |-> [totalActivities |-> Len(acts),
                 confidenceScore |-> calculateConfidenceScore(acts)]]

(* the note createComprehensiveSummary adds for more than 10 activities *)
ActivitiesNote(n) ==
  "Analyzed " \o ToString(n)
  \o " activities across multiple sources including GitHub commits, pull requests, and documentation."

(* a merge that takes the extracted highlights whenever there are some *)
mergeHighlightsAlways(summary, highlights, n) ==
  With(IF Len(highlights) > 0
       THEN [summary EXCEPT !.Highlights = highlights]
       ELSE summary,
       LAMBDA merged :
         IF n > 10
         THEN [merged EXCEPT !.Notes = Append(@, ActivitiesNote(n))]
         ELSE merged)

(* createComprehensiveSummary: the highlights are put into a summary     *)
(* that has none, and the note is added for more than 10 activities      *)
mergeHighlights(summary, highlights, n) ==
  With(IF Len(highlights) > 0 /\ Len(summary.Highlights) = 0
       THEN [summary EXCEPT !.Highlights = highlights]
       ELSE summary,
       LAMBDA merged :
         IF n > 10
         THEN [merged EXCEPT !.Notes = Append(@, ActivitiesNote(n))]
         ELSE merged)

(* createComprehensiveSummary after createWeeklySummary: the highlights   *)
(* of all activities are extracted and merged into the summary, and       *)
(* analyzeActivity returns its output                                     *)
ExtractHighlights ==
  /\ apc = "highlights"
  /\ \E oh \in Backend(ExtractionOutcomes) :
       \E highlights \in {extractHighlights(originalTexts(allActivities), oh)} :
         IF highlights.threw
         THEN analyzeActivityThrows
         ELSE /\ agentResult' =
                   [entry |-> "analyzeActivity", threw |-> FALSE,
                    value |-> Output(mergeHighlights(weeklySummary,
                                                     highlights.value,
                                                     Len(allActivities)),
                                     allActivities)]
              /\ weeklySummary' = emptySummary
              /\ allActivities' = <<>>
              /\ stage' = 0
              /\ apc' = "idle"
  /\ returned' = NoReturn
  /\ UNCHANGED <<callVars, now, requests, maxRequests, timeWindow, callers, pc, wakeAt,
                 recordedBy, routeVars, catVars, input>>

(* quickAnalyze is called: getUsageStats, then optimizedSingleCallAnalysis *)
(* up to the await of execute                                             *)
QuickAnalyze(in) ==
  /\ apc = "idle"
  /\ pc[1] = "idle"
  /\ CanBegin
  /\ input' = in
  /\ apc' = "quickAnalyze"
  /\ agentResult' = NoResult
  /\ waitForAvailabilityEnter(1, "agent_sleep", "agent_acquired")
  /\ recordedBy' = [recordedBy EXCEPT
                      ![1] = Len(requests') - Len(Prune(requests, now))]
  /\ returned' = NoReturn
  /\ UNCHANGED <<callVars, now, maxRequests, timeWindow, callers, routeVars, catVars,
                 stage, allActivities, weeklySummary>>

(* generateEmailContent is called: getUsageStats, the prompt, and execute *)
(* up to its await                                                        *)
GenerateEmailContent(summary) ==
  /\ apc = "idle"
  /\ pc[1] = "idle"
  /\ CanBegin
  /\ input' = NoInput
  /\ weeklySummary' = summary
  /\ apc' = "generateEmailContent"
  /\ agentResult' = NoResult
  /\ waitForAvailabilityEnter(1, "agent_sleep", "agent_acquired")
  /\ recordedBy' = [recordedBy EXCEPT
                      ![1] = Len(requests') - Len(Prune(requests, now))]
  /\ returned' = NoReturn
  /\ UNCHANGED <<callVars, now, maxRequests, timeWindow, callers, routeVars, catVars,
                 stage, allActivities>>

(* the timer of waitForAvailability fires *)
AgentWake ==
  /\ pc[1] = "agent_sleep"
  /\ waitForAvailabilityResume(1, "agent_acquired")
  /\ recordedBy' = [recordedBy EXCEPT
                      ![1] = recordedBy[1] + Len(requests') - Len(requests)]
  /\ returned' = NoReturn
  /\ UNCHANGED <<now, maxRequests, timeWindow, callers, wakeAt, routeVars,
                 catVars, agentVars, callVars>>

(* execute calls the operation: this.model.generateContent(prompt) *)
AgentInvoke ==
  /\ pc[1] = "agent_acquired"
  /\ pc' = [pc EXCEPT ![1] = "agent_fn"]
  /\ generationCalls' = generationCalls + 1
  /\ returned' = NoReturn
  /\ UNCHANGED <<now, requests, maxRequests, timeWindow, callers, wakeAt,
                 recordedBy, request, githubData, response, backendDown, rpc,
                 catVars, agentVars, callVars>>

(* the model call of optimizedSingleCallAnalysis settles, and quickAnalyze *)
(* returns or throws                                                      *)
QuickAnalyzeSettle ==
  /\ apc = "quickAnalyze"
  /\ pc[1] = "agent_fn"
  /\ \E o \in Backend(OptimizedOutcomes) :
       /\ executeSettle(1, IF o.kind = "error" THEN "fail" ELSE "ok")
       /\ agentResult' =
            With(quickAnalyzeTable[input, o, now], LAMBDA result :
              [entry |-> "quickAnalyze", threw |-> result.threw,
               value |-> result.value])
  /\ apc' = "idle"
  /\ recordedBy' = [recordedBy EXCEPT ![1] = 0]
  /\ wakeAt' = [wakeAt EXCEPT ![1] = 0]
  /\ UNCHANGED <<callVars, now, maxRequests, timeWindow, callers, routeVars, catVars,
                 input, stage, allActivities, weeklySummary>>

(* the model call of generateEmailContent settles, and it returns *)
GenerateEmailContentSettle ==
  /\ apc = "generateEmailContent"
  /\ pc[1] = "agent_fn"
  /\ \E o \in Backend(EmailOutcomes) :
       /\ executeSettle(1, IF o.kind = "error" THEN "fail" ELSE "ok")
       /\ agentResult' =
            With(generateEmailContentTable[weeklySummary, o], LAMBDA result :
              [entry |-> "generateEmailContent",
               threw |-> result.threw, value |-> result.value])
  /\ weeklySummary' = emptySummary
  /\ apc' = "idle"
  /\ recordedBy' = [recordedBy EXCEPT ![1] = 0]
  /\ wakeAt' = [wakeAt EXCEPT ![1] = 0]
  /\ UNCHANGED <<callVars, now, maxRequests, timeWindow, callers, routeVars, catVars,
                 input, stage, allActivities>>

AgentNext ==
  \/ \E in \in AgentInputs : AnalyzeActivity(in)
  \/ ProcessGitHub
  \/ ProcessContent
  \/ ClassifyNext
  \/ SourceClassified
  \/ CreateWeeklySummary
  \/ FallbackStructuredSummary
  \/ ExtractHighlights
  \/ \E in \in AgentInputs : QuickAnalyze(in)
  \/ \E summary \in EmailSummaries : GenerateEmailContent(summary)
  \/ AgentWake
  \/ AgentInvoke
  \/ QuickAnalyzeSettle
  \/ GenerateEmailContentSettle
  \/ Tick

(* a limiter of one call per window, and a backend that is up or down *)
InitAgent ==
  /\ RLInit({1})
  /\ maxRequests = 1
  /\ timeWindow = 2
  /\ backendDown \in BOOLEAN

SpecAgent == InitAgent /\ [][AgentNext]_vars

(* C3: whatever the backend does at each of its call sites (an error, a  *)
(* malformed or empty answer, a label outside the taxonomy), a call of   *)
(* analyzeActivity, quickAnalyze or generateEmailContent that has ended  *)
(* has returned a result: no failure is raised to the caller.            *)
C3_EntryPointsComplete ==
  /\ ~agentResult.threw
  /\ agentResult.entry = "analyzeActivity" =>
       /\ agentResult.value.metadata.totalActivities
            = Len(agentResult.value.categorizedActivities)
       /\ DOMAIN agentResult.value.weeklySummary = SummaryFields
  /\ agentResult.entry = "quickAnalyze" =>
       \A i \in 1..Len(agentResult.value) :
         agentResult.value[i].source = "github"

(* analyzeActivity has returned its output for notes processed with the  *)
(* backend down at every call site                                       *)
C3_Witness ==
  /\ backendDown
  /\ agentResult.entry = "analyzeActivity"
  /\ ~agentResult.threw
  /\ input.notionContent # ""
  /\ Len(agentResult.value.categorizedActivities) > 0

----------------------------------------------------------------------------
(* Methods called on their own.  A call takes its arguments from the sets *)
(* below and runs to its end; its model call, if it makes one, ends in    *)
(* one of the ways the backend allows.                                    *)

(* what a call that made `calls` model calls returned *)
ReturnedAfter(v, calls) == [threw |-> FALSE, value |-> v, calls |-> calls]

(* the caller has taken the value *)
CallReturn ==
  /\ call # NoCall
  /\ call' = NoCall
  /\ ret' = NotCalled
  /\ UNCHANGED <<rlVars, catVars, routeVars, agentVars, logVars>>

(* the categorized activities the groupings are made of *)
GroupedDescriptions == {"Add CSV export.", "Null pointer in parser."}

(* the classified activities that are grouped: of every category, in      *)
(* every order, their descriptions taking turns                           *)
GroupedActivities ==
  {[i \in 1..Len(cs) |->
      LET d == IF i % 2 = 1 THEN "Add CSV export."
               ELSE "Null pointer in parser."
      IN [category |-> cs[i], description |-> d, impact |-> "low",
          source |-> "commit", originalText |-> d]] :
     cs \in SeqsUpTo(Taxonomy, MaxBatch)}

(* mapToWeeklySummaryCategories(groupByCategory(acts)) *)
MapToWeeklySummaryCategories(acts) ==
  /\ call = NoCall
  /\ call' = [method |-> "mapToWeeklySummaryCategories",
              args |-> <<groupByCategory(acts)>>]
  /\ ret' = ReturnedAfter(mapToWeeklySummaryCategories(groupByCategory(acts)), 0)
  /\ UNCHANGED <<rlVars, catVars, routeVars, agentVars, logVars>>

(* the groups summarizeActivityGroup is called with are made of these *)
GroupTexts ==
  {"fix: null pointer in parser", "PR #7: Speed up cache - BREAKING",
   "  docs: update the readme!", ""}

GroupCategories == {"fix", "docs"}

(* what the model call of summarizeActivityGroup can do *)
GroupAnswers == {"", "  Improved the parser and the export.\n", "[]"}

GroupOutcomes ==
  {BackendError} \cup {[kind |-> "text", text |-> a] : a \in GroupAnswers}

(* a summarizeActivityGroup that asks the model about a single activity too *)
summarizeActivityGroupNoShortcut(acts, category, outcome) ==
  IF Len(acts) = 0 THEN ReturnedAfter(JNull, 0)
  ELSE IF outcome.kind = "error"
       THEN ReturnedAfter(JStr(cleanActivityDescription(acts[1])), 1)
       ELSE ReturnedAfter(JStr(trim(outcome.text)), 1)

(* Summarizer.summarizeActivityGroup: null, the cleaned single activity,  *)
(* or the try block with its model call and the catch block               *)
summarizeActivityGroup(acts, category, outcome) ==
  IF Len(acts) = 0 THEN ReturnedAfter(JNull, 0)
  ELSE IF Len(acts) = 1
       THEN ReturnedAfter(JStr(cleanActivityDescription(acts[1])), 0)
       ELSE IF outcome.kind = "error"
            THEN ReturnedAfter(JStr(cleanActivityDescription(acts[1])), 1)
            ELSE ReturnedAfter(JStr(trim(outcome.text)), 1)

(* a call of summarizeActivityGroup; backend is what the model does when  *)
(* it is asked                                                            *)
SummarizeActivityGroup(acts, category) ==
  /\ call = NoCall
  /\ \E outcome \in Backend(GroupOutcomes) :
       /\ call' = [method |-> "summarizeActivityGroup",
                   args |-> <<acts, category>>, backend |-> outcome]
       /\ ret' = summarizeActivityGroup(acts, category, outcome)
  /\ UNCHANGED <<rlVars, catVars, routeVars, agentVars, logVars>>

(* a call of classifyActivity *)
ClassifyActivity(activity) ==
  /\ call = NoCall
  /\ \E outcome \in Backend(ClassificationOutcomes) :
       /\ call' = [method |-> "classifyActivity", args |-> <<activity>>,
                   backend |-> outcome]
       /\ ret' = With(classifyActivity(activity, outcome), LAMBDA c :
                    [threw |-> c.threw, value |-> c.value, calls |-> 1])
  /\ UNCHANGED <<rlVars, catVars, routeVars, agentVars, logVars>>

(* texts for the keyword rules: each but the last two holds a keyword of  *)
(* one rule and a keyword of the rule after it                            *)
KeywordTexts ==
  {"Add a fix for the login bug", "Fix the broken update script",
   "Clean up the docs", "README for the test suite",
   "Unit checks for the cache", "Cache the auth token",
   "Rotate the auth secrets", "RENEWAL notice", "Bump deps", ""}

(* a call of fallbackClassification *)
FallbackClassification(activity) ==
  /\ call = NoCall
  /\ call' = [method |-> "fallbackClassification", args |-> <<activity>>]
  /\ ret' = ReturnedAfter(fallbackClassification(activity), 0)
  /\ UNCHANGED <<rlVars, catVars, routeVars, agentVars, logVars>>

(* the contents the extractions are called with: a text with a           *)
(* semicolon; six achievements; four learnings; a text without keywords; *)
(* a short sentence and a line break; a blank text                       *)
ExtractionContents ==
  {"Found a critical race in checkout; fixed it in the payment flow",
   "Completed task one. Finished task two! Implemented task three? Created task four. Developed task five. Built task six.",
   "Learned about caching. Learned about queues... Learned about tracing. Learned about sharding.",
   "Went for a walk in the park. Had lunch with the team.",
   "I learned. Then I studied the caching methodology\nand built a demo.",
   "  \n"}

(* what a call of an extraction on its own leaves behind *)
extractionCalled(method, content, outcome, extracted) ==
  /\ call' = [method |-> method, args |-> <<content>>, backend |-> outcome]
  /\ ret' = [threw |-> extracted.threw, value |-> extracted.value,
             calls |-> IF trim(content) = "" THEN 0 ELSE 1]
  /\ UNCHANGED <<rlVars, catVars, routeVars, agentVars, logVars>>

ExtractAchievements(content) ==
  /\ call = NoCall
  /\ \E outcome \in Backend(ExtractionOutcomes) :
       extractionCalled("extractAchievements", content, outcome,
                        extractAchievements(content, outcome))

ExtractInsights(content) ==
  /\ call = NoCall
  /\ \E outcome \in Backend(ExtractionOutcomes) :
       extractionCalled("extractInsights", content, outcome,
                        extractInsights(content, outcome))

ExtractLearnings(content) ==
  /\ call = NoCall
  /\ \E outcome \in Backend(ExtractionOutcomes) :
       extractionCalled("extractLearnings", content, outcome,
                        extractLearnings(content, outcome))

(* the lists deduplicateAndPrioritize is called with: a run of the items  *)
(* below, alone or followed by one more of them, of at most MaxItems      *)
(* items together                                                         *)
ItemPool ==
  <<"tiny", "nine char", "   padded   ", "eleven char", "twelve chars",
    "also 12 char", "thirteen char", "ten chars!", "fourteen chars",
    "fifteen chars..", "sixteen chars...", "seventeen chars..",
    "  leading pad kept", "eighteen chars....", "nineteen chars.....",
    "twenty characters...">>

ItemRuns(n) ==
  {SubSeq(ItemPool, i, i + a - 1) :
     <<i, a>> \in {q \in (1..Len(ItemPool)) \X (0..n) :
                     q[1] + q[2] - 1 <= Len(ItemPool)}}

ItemLists ==
  ItemRuns(MaxItems)
    \cup {run \o <<ItemPool[k]>> :
            run \in ItemRuns(MaxItems - 1), k \in 1..Len(ItemPool)}

(* unique.sort((a, b) => b.length - a.length): the sort is stable, items  *)
(* of one length keep their order                                         *)
sortByLength(items) ==
  LET before(i) == Cardinality({j \in 1..Len(items) :
                     \/ Len(items[j]) > Len(items[i])
                     \/ Len(items[j]) = Len(items[i]) /\ j < i})
  IN [n \in 1..Len(items) |->
        items[CHOOSE i \in 1..Len(items) : before(i) = n - 1]]

(* the same without the trim, and with items of 10 characters kept *)
deduplicateAndPrioritizeUntrimmed(items) ==
  LET sorted == sortByLength(SelectSeq(removeDuplicates(items, {}),
                                       LAMBDA item : Len(item) >= 10))
  IN SubSeq(sorted, 1, IF Len(sorted) < 10 THEN Len(sorted) ELSE 10)

deduplicateAndPrioritize(items) ==
  LET sorted == sortByLength(SelectSeq(removeDuplicates(items, {}),
                                       LAMBDA item : Len(trim(item)) > 10))
  IN SubSeq(sorted, 1, IF Len(sorted) < 10 THEN Len(sorted) ELSE 10)

DeduplicateAndPrioritize(items) ==
  /\ call = NoCall
  /\ call' = [method |-> "deduplicateAndPrioritize", args |-> <<items>>]
  /\ ret' = ReturnedAfter(deduplicateAndPrioritize(items), 0)
  /\ UNCHANGED <<rlVars, catVars, routeVars, agentVars, logVars>>

(* lib/ai.ts, generateWeeklyEmail.  The dates are optional and left out,  *)
(* so the date range reads "for this week".                               *)
ThisWeek == "for this week"

(* the star emoji U+1F31F of the highlights, written as a circumflex *)
Star == "^"

(* achievementTexts.filter((text) => text.includes(w1) || ...) *)
textsWith(texts, words) ==
  SelectSeq(texts, LAMBDA text : \E w \in words : includes(text, w))

(* the WeeklySummary generateWeeklyEmail makes of the achievement texts *)
summaryOfTexts(texts) ==
  LET features == textsWith(texts, {"develop", "implement", "create",
                                    "enhance", Star})
      fixes == textsWith(texts, {"fix", "resolve", "correct", "debug"})
      refactors == textsWith(texts, {"refactor", "improve", "optimize",
                                     "clean"})
  IN [Features |-> IF features = <<>> /\ fixes = <<>> /\ refactors = <<>>
                   THEN texts ELSE features,
      Fixes |-> fixes,
      Refactors |-> refactors,
      Highlights |-> SelectSeq(texts, LAMBDA text : startsWith(text, Star)),
      Notes |-> <<>>]

(* fallbackEmailGeneration: its own model call, and the email written by  *)
(* hand when the call fails or answers nothing                            *)
fallbackEmailGeneration(texts, outcome) ==
  IF outcome.kind = "error" \/ trim(outcome.text) = ""
  THEN "Subject: Weekly Update - " \o ThisWeek
       \o "\n\nHi [Manager],\n\nI wanted to share a quick update on my progress "
       \o ThisWeek \o ":\n\n"
       \o joinLines([i \in 1..Len(texts) |-> Bullet \o " " \o texts[i]])
       \o "\n\nPlease let me know if you have any questions or need additional details."
       \o "\n\nBest regards,\n[Your name]"
  ELSE outcome.text

(* generateWeeklyEmail: the try block, whose errors its own catch block   *)
(* hands to fallbackEmailGeneration                                       *)
generateWeeklyEmail(texts, outcome, fallbackOutcome) ==
  IF Len(texts) = 0
  THEN ReturnedAfter(fallbackEmailGeneration(texts, fallbackOutcome), 1)
  ELSE With(generateEmailContent(summaryOfTexts(texts), ThisWeek, outcome),
            LAMBDA emailContent :
              IF trim(emailContent.value) = ""
              THEN ReturnedAfter(
                     fallbackEmailGeneration(texts, fallbackOutcome), 2)
              ELSE ReturnedAfter(emailContent.value, 1))

(* the achievement texts generateWeeklyEmail is called with *)
EmailTexts ==
  {"implement the fix for login", "wrote the docs", "Shipped CSV export"}

GenerateWeeklyEmail(texts) ==
  /\ call = NoCall
  /\ \E outcome \in Backend(EmailOutcomes),
        fallbackOutcome \in Backend(EmailOutcomes) :
       /\ call' = [method |-> "generateWeeklyEmail", args |-> <<texts>>,
                   backend |-> outcome, fallback |-> fallbackOutcome]
       /\ ret' = generateWeeklyEmail(texts, outcome, fallbackOutcome)
  /\ UNCHANGED <<rlVars, catVars, routeVars, agentVars, logVars>>

CallNext ==
  \/ \E texts \in SeqsUpTo(EmailTexts, MaxBatch) : GenerateWeeklyEmail(texts)
  \/ \E items \in ItemLists : DeduplicateAndPrioritize(items)
  \/ \E content \in ExtractionContents : ExtractAchievements(content)
  \/ \E content \in ExtractionContents : ExtractInsights(content)
  \/ \E content \in ExtractionContents : ExtractLearnings(content)
  \/ \E activity \in ActivityTexts : ClassifyActivity(activity)
  \/ \E activity \in KeywordTexts : FallbackClassification(activity)
  \/ \E acts \in GroupedActivities : MapToWeeklySummaryCategories(acts)
  \/ \E acts \in SeqsUpTo(GroupTexts, MaxBatch), category \in GroupCategories :
       SummarizeActivityGroup(acts, category)
  \/ CallReturn

InitCall ==
  /\ RLInit({1})
  /\ maxRequests = 1
  /\ timeWindow = 2
  /\ backendDown \in BOOLEAN

SpecCall == InitCall /\ [][CallNext]_vars

----------------------------------------------------------------------------
(* ServerLogManager, src/weekly-update-assistant/src/lib/                 *)
(* serverLogManager.ts.  The entries are numbered as they are added (the  *)
(* id of the code is unique too), and their levels take turns.            *)

(* private maxLogs = 50 *)
maxLogs == 50

LogLevels == <<"info", "success", "warning", "error">>

(* the log entry addLog makes of its arguments *)
logEntry(n, level, message) ==
  [id |-> "server-log-" \o ToString(n), level |-> level, message |-> message]

(* an addLog that keeps the first maxLogs entries *)
addLogKeepOldest(buffer, log) ==
  LET pushed == Append(buffer, log)
  IN IF Len(pushed) > maxLogs THEN SubSeq(pushed, 1, maxLogs) ELSE pushed

(* this.logs.push(log); this.logs = this.logs.slice(-this.maxLogs) when   *)
(* there are more than maxLogs                                            *)
addLog(buffer, log) ==
  LET pushed == Append(buffer, log)
  IN IF Len(pushed) > maxLogs
     THEN SubSeq(pushed, Len(pushed) - maxLogs + 1, Len(pushed))
     ELSE pushed

AddLog ==
  /\ call = NoCall
  /\ logSeq < MaxAdds
  /\ \E log \in {logEntry(logSeq + 1, LogLevels[(logSeq % 4) + 1],
                           "message " \o ToString(logSeq + 1))} :
       /\ logs' = addLog(logs, log)
       /\ added' = Append(added, log)
  /\ logSeq' = logSeq + 1
  /\ UNCHANGED <<rlVars, catVars, routeVars, agentVars, call, ret>>

(* getLogs returns a copy of the buffer *)
GetLogs ==
  /\ call = NoCall
  /\ call' = [method |-> "getLogs", args |-> <<>>]
  /\ ret' = ReturnedAfter(logs, 0)
  /\ UNCHANGED <<rlVars, catVars, routeVars, agentVars, logVars>>

ClearLogs ==
  /\ call = NoCall
  /\ logs # <<>>
  /\ logs' = <<>>
  /\ added' = <<>>
  /\ UNCHANGED <<rlVars, catVars, routeVars, agentVars, call, ret, logSeq>>

LogNext ==
  \/ AddLog
  \/ GetLogs
  \/ ClearLogs
  \/ CallReturn

SpecLog == InitCall /\ [][LogNext]_vars

(* the last n entries of a sequence *)
LastOf(s, n) == IF Len(s) <= n THEN s ELSE SubSeq(s, Len(s) - n + 1, Len(s))

(* C30: after any sequence of addLog and clearLogs the buffer holds at    *)
(* most 50 entries, and they are the most recently added entries since    *)
(* the last clearLogs, in the order they were added; getLogs returns      *)
(* them.                                                                  *)
C30_BufferIsLatestFifty ==
  /\ Len(logs) <= 50
  /\ logs = LastOf(added, 50)
  /\ call.method = "getLogs" => ret.value = logs

(* more than 50 entries were added after a clearLogs, and getLogs         *)
(* returned the 50 newest                                                 *)
C30_Witness ==
  /\ call.method = "getLogs"
  /\ Len(added) > 50
  /\ logSeq > Len(added)
  /\ Len(ret.value) = 50
  /\ ret.value[50] = added[Len(added)]
  /\ ret.value[1] # added[1]

(* the categories of each bucket, as the fixed mapping has them *)
BucketCategories ==
  [Features |-> <<"feature", "performance", "security">>,
   Fixes |-> <<"fix">>,
   Refactors |-> <<"refactor", "docs", "test", "chore">>]

(* C11: mapToWeeklySummaryCategories files feature, performance and       *)
(* security under Features, fix under Fixes, and refactor, docs, test and *)
(* chore under Refactors: each bucket holds a description as often as the *)
(* groups of its categories hold an activity with that description, and   *)
(* the lengths of the three buckets add up to the number of grouped       *)
(* activities.                                                            *)
C11_FixedBucketMapping ==
  call.method = "mapToWeeklySummaryCategories" =>
    LET g == call.args[1]
        buckets == ret.value
        described(d) ==
          [c \in Taxonomy |-> SelectSeq(g[c], LAMBDA a : a.description = d)]
    IN /\ DOMAIN buckets = {"Features", "Fixes", "Refactors"}
       /\ \A b \in DOMAIN buckets, d \in GroupedDescriptions :
            Len(SelectSeq(buckets[b], LAMBDA x : x = d))
              = SumOfLengths(described(d), BucketCategories[b])
       /\ Len(buckets.Features) + Len(buckets.Fixes) + Len(buckets.Refactors)
            = SumOfLengths(g, validCategories)

(* a grouping with a performance, a docs and a fix activity, mapped *)
C11_Witness ==
  /\ call.method = "mapToWeeklySummaryCategories"
  /\ Len(call.args[1]["performance"]) = 1
  /\ Len(call.args[1]["docs"]) = 1
  /\ Len(call.args[1]["fix"]) = 1
  /\ call.args[1]["performance"][1].description
       # call.args[1]["docs"][1].description
  /\ Len(ret.value.Features) = 1
  /\ Len(ret.value.Refactors) = 1

(* the texts of the groups as cleanActivityDescription leaves them: the   *)
(* technical prefix and the pull request number gone, the ends trimmed,   *)
(* the first letter a capital, a period where no . ! ? ends the text      *)
CleanedGroupText ==
  [t \in GroupTexts |->
     IF t = "fix: null pointer in parser" THEN "Null pointer in parser."
     ELSE IF t = "PR #7: Speed up cache - BREAKING"
          THEN "Speed up cache - BREAKING."
     ELSE IF t = "  docs: update the readme!" THEN "Docs: update the readme!"
     ELSE "."]

(* C14: summarizeActivityGroup makes no model call for a group of no or   *)
(* one member: it returns null for the empty group and, for the group of  *)
(* the one text x, x cleaned, capitalised and punctuated, whatever the    *)
(* backend would do (answer, fail, answer garbage).                       *)
C14_SmallGroupsBypassModel ==
  (call.method = "summarizeActivityGroup" /\ Len(call.args[1]) <= 1) =>
    /\ ~ret.threw
    /\ ret.calls = 0
    /\ Len(call.args[1]) = 0 => ret.value.t = "null"
    /\ Len(call.args[1]) = 1 =>
         /\ ret.value.t = "str"
         /\ ret.value.v = CleanedGroupText[call.args[1][1]]

(* the group of one pull request, summarized while the backend would have *)
(* answered                                                               *)
C14_Witness ==
  /\ call.method = "summarizeActivityGroup"
  /\ call.args[1] = <<"PR #7: Speed up cache - BREAKING">>
  /\ call.backend.kind = "text"
  /\ call.backend.text # ""
  /\ ret.value.t = "str"
  /\ ret.calls = 0

(* C15: for a group of two or more texts summarizeActivityGroup makes     *)
(* exactly one model call, and when that call raises an error or answers  *)
(* an empty text the result is the cleaned first member, so the result    *)
(* for a group that is not empty is never null or empty.                  *)
C15_GroupFallsBackToFirstMember ==
  (call.method = "summarizeActivityGroup" /\ Len(call.args[1]) >= 2) =>
    /\ ~ret.threw
    /\ ret.calls = 1
    /\ (call.backend.kind = "error" \/ call.backend.text = "") =>
         /\ ret.value.t = "str"
         /\ ret.value.v = CleanedGroupText[call.args[1][1]]
    /\ ret.value.t = "str"
    /\ ret.value.v # ""

(* the label an answer of the model stands for once it is trimmed and in  *)
(* lower case, for the answers that stand for one                         *)
LabelOfAnswer ==
  [a \in ClassificationAnswers |->
     IF a = " Fix\n" THEN "fix"
     ELSE IF a = "SECURITY" THEN "security"
     ELSE "none"]

(* C16: classifyActivity returns the label of the backend, trimmed and in *)
(* lower case, when it is one of the taxonomy, and in every other case    *)
(* (an error of the backend, a label outside the taxonomy) what the       *)
(* keyword fallback returns for the same text.                            *)
C16_LabelOrKeywordFallback ==
  call.method = "classifyActivity" =>
    /\ ~ret.threw
    /\ ret.value =
         IF call.backend.kind = "text" /\ LabelOfAnswer[call.backend.text] # "none"
         THEN LabelOfAnswer[call.backend.text]
         ELSE fallbackClassification(call.args[1])

(* the model answered " Fix\n" for a text the keyword rules take for a    *)
(* feature                                                                *)
C16_Witness ==
  /\ call.method = "classifyActivity"
  /\ call.args[1] = "feat: add CSV export"
  /\ call.backend.kind = "text"
  /\ call.backend.text = " Fix\n"
  /\ ret.value = "fix"

(* the order of the keyword rules *)
RuleOrder ==
  <<"feature", "fix", "refactor", "docs", "test", "performance", "security">>

(* what the rules make of the texts *)
KeywordCategory ==
  [t \in KeywordTexts |->
     IF t \in {"Add a fix for the login bug", "RENEWAL notice"} THEN "feature"
     ELSE IF t = "Fix the broken update script" THEN "fix"
     ELSE IF t = "Clean up the docs" THEN "refactor"
     ELSE IF t = "README for the test suite" THEN "docs"
     ELSE IF t = "Unit checks for the cache" THEN "test"
     ELSE IF t = "Cache the auth token" THEN "performance"
     ELSE IF t = "Rotate the auth secrets" THEN "security"
     ELSE "chore"]

(* C17: the keyword fallback is a first-match rule list in the order      *)
(* feature, fix, refactor, docs, test, performance, security: it returns  *)
(* the category of the first rule one of whose keywords occurs in the     *)
(* text in lower case (a text with a feature keyword and a fix keyword is *)
(* a feature), and chore when no rule matches.                            *)
C17_FirstMatchingRule ==
  call.method = "fallbackClassification" =>
    LET text == toLowerCase(call.args[1])
        matching ==
          {i \in 1..Len(RuleOrder) :
             \E k \in fallbackRules[i].keywords : includes(text, k)}
    IN /\ \A i \in 1..Len(RuleOrder) : fallbackRules[i].category = RuleOrder[i]
       /\ Len(fallbackRules) = Len(RuleOrder)
       /\ ret.value =
            IF matching = {} THEN "chore"
            ELSE RuleOrder[CHOOSE i \in matching : \A j \in matching : i <= j]
       /\ ret.value = KeywordCategory[call.args[1]]

(* a text with a keyword of the feature rule and two of the fix rule *)
C17_Witness ==
  /\ call.method = "fallbackClassification"
  /\ call.args[1] = "Add a fix for the login bug"
  /\ ret.value = "feature"

ExtractionMethods ==
  {"extractAchievements", "extractInsights", "extractLearnings"}

(* the model call failed or its answer is no JSON array of strings *)
ExtractionFailed ==
  \/ call.backend.kind = "error"
  \/ call.backend.text
       \in {"", "Here is what I found.", "[42]", "{\"items\": []}"}

KeywordsOf(method) ==
  IF method = "extractAchievements" THEN achievementKeywords
  ELSE IF method = "extractInsights" THEN insightKeywords
  ELSE learningKeywords

LimitOf(method) == IF method = "extractAchievements" THEN 5 ELSE 3

(* the pieces of s between the characters of seps *)
PiecesBetween(s, seps) ==
  LET cuts == {0, Len(s) + 1} \cup {i \in 1..Len(s) : CharAt(s, i) \in seps}
      cut(k) == CHOOSE c \in cuts : Cardinality({d \in cuts : d < c}) = k - 1
  IN [k \in 1..(Cardinality(cuts) - 1) |->
        SubSeq(s, cut(k) + 1, cut(k + 1) - 1)]

(* the sentences of the claim: the input split at . ! ? ; and newlines *)
ClaimedSentences(s) ==
  SelectSeq(PiecesBetween(s, {".", "!", "?", ";", "\n"}),
            LAMBDA piece : trim(piece) # "")

(* the first N of the claimed sentences that hold a keyword of the method *)
ClaimedKeywordSentences(method, content) ==
  LET hits == SelectSeq(ClaimedSentences(content),
                        LAMBDA piece : \E k \in KeywordsOf(method) :
                                         includes(toLowerCase(piece), k))
      n == IF Len(hits) < LimitOf(method) THEN Len(hits) ELSE LimitOf(method)
  IN [i \in 1..n |-> trim(hits[i])]

FallbackSentences(method, content) ==
  IF content = "Found a critical race in checkout; fixed it in the payment flow"
  THEN IF method = "extractInsights" THEN <<content>> ELSE <<>>
  ELSE IF content = "Completed task one. Finished task two! Implemented task three? Created task four. Developed task five. Built task six."
  THEN IF method = "extractAchievements"
       THEN <<"Completed task one", "Finished task two",
              "Implemented task three", "Created task four",
              "Developed task five">>
       ELSE <<>>
  ELSE IF content = "Learned about caching. Learned about queues... Learned about tracing. Learned about sharding."
  THEN IF method = "extractAchievements" THEN <<>>
       ELSE <<"Learned about caching", "Learned about queues",
              "Learned about tracing">>
  ELSE IF content = "I learned. Then I studied the caching methodology\nand built a demo."
  THEN IF method = "extractInsights" THEN <<>>
       ELSE <<"Then I studied the caching methodology\nand built a demo">>
  ELSE <<>>

IsPrioritized(out, kept) ==
  /\ \A i, j \in 1..Len(out) : i < j =>
        /\ out[i] # out[j]
        /\ Len(out[i]) >= Len(out[j])
  /\ Range(out) \subseteq kept
  /\ Len(out) = (IF Cardinality(kept) < 10 THEN Cardinality(kept) ELSE 10)
  /\ \A x \in kept \ Range(out), y \in Range(out) : Len(y) >= Len(x)

(* C19, as the claim has it: deduplicateAndPrioritize returns a list with *)
(* no two equal items, of input items only, from which exactly the items  *)
(* shorter than 10 characters have been removed (an item of exactly 10    *)
(* characters is kept), ordered by non-increasing length and holding at   *)
(* most 10 items, the longest ones.                                       *)
C19_ShorterThanTenRemoved ==
  call.method = "deduplicateAndPrioritize" =>
    IsPrioritized(ret.value, {x \in Range(call.args[1]) : Len(x) >= 10})

(* C19, amended: deduplicateAndPrioritize returns a list with no two      *)
(* equal items, of input items only, from which exactly the items whose   *)
(* trimmed length is 10 characters or less have been removed (an item of  *)
(* exactly 10 characters is removed, and so is a longer one that is 10 or *)
(* less without its surrounding white space), ordered by non-increasing   *)
(* untrimmed length and holding at most 10 items, the longest ones.       *)
C19_TrimmedTenOrLessRemoved ==
  call.method = "deduplicateAndPrioritize" =>
    /\ ~ret.threw
    /\ IsPrioritized(ret.value,
                     {x \in Range(call.args[1]) : Len(trim(x)) > 10})

(* a list with the item of exactly 10 characters and more than 10 items   *)
(* over the threshold came back as its 10 longest, without that item      *)
C19_Witness ==
  /\ call.method = "deduplicateAndPrioritize"
  /\ "ten chars!" \in Range(call.args[1])
  /\ Cardinality({x \in Range(call.args[1]) : Len(trim(x)) > 10}) > 10
  /\ Len(ret.value) = 10
  /\ "ten chars!" \notin Range(ret.value)

(* the lines of the email that are bullets *)
BulletLines(email) ==
  SelectSeq(PiecesBetween(email, {"\n"}),
            LAMBDA line : startsWith(line, Bullet \o " "))

(* C26: when the model call that writes the email fails, the email that   *)
(* generateWeeklyEmail returns holds exactly one bullet for each          *)
(* achievement text it was given: none is left out and none is in more    *)
(* than one bullet.                                                       *)
C26_OneBulletPerAchievement ==
  (/\ call.method = "generateWeeklyEmail"
   /\ call.args[1] # <<>>
   /\ call.backend.kind = "error") =>
     /\ ~ret.threw
     /\ Len(BulletLines(ret.value)) = Len(call.args[1])
     /\ \A t \in Range(call.args[1]) :
          Len(SelectSeq(BulletLines(ret.value),
                        LAMBDA line : line = Bullet \o " " \o t))
            = Len(SelectSeq(call.args[1], LAMBDA x : x = t))

(* C29: generateWeeklyEmail called with an empty list of achievements     *)
(* ends with its error: it makes no model call and returns no email.      *)
C29_EmptyListIsAnError ==
  (call.method = "generateWeeklyEmail" /\ call.args[1] = <<>>) =>
     (ret.threw /\ ret.calls = 0)

----------------------------------------------------------------------------
(* analyzeActivity: the model calls of the detailed path, under SpecAgent *)

(* C23: in the detailed path every generation call is made through the    *)
(* shared limiter: the step that calls the model for an activity is taken *)
(* by a caller whose execute has recorded its timestamp.                  *)
C23_DetailedCallsThroughLimiter ==
  [][(apc \in {"classifying", "summaryFallback"}
        /\ Len(backendLog') > Len(backendLog)) =>
       (recordedBy[1] = 1 /\ requests # <<>>)]_vars

(* C25: generateEmailContent never returns an empty text: when the model  *)
(* answers its call with an empty text, the email of                      *)
(* createBasicEmailFallback is returned, as it is when the call fails.    *)
C25_EmptyAnswerGivesTemplate ==
  agentResult.entry = "generateEmailContent" =>
    (~agentResult.threw /\ trim(agentResult.value) # "")

(* C27: createComprehensiveSummary puts the highlights it extracted into  *)
(* the summary only when the summary of the summarizer has none: a        *)
(* Highlights list that is not empty is left as it is, and Features,      *)
(* Fixes and Refactors are never changed.                                 *)
C27_HighlightsMergedOnlyIfNone ==
  [][(apc = "highlights" /\ apc' = "idle" /\ ~agentResult'.threw) =>
       LET out == agentResult'.value.weeklySummary IN
         /\ out.Features = weeklySummary.Features
         /\ out.Fixes = weeklySummary.Fixes
         /\ out.Refactors = weeklySummary.Refactors
         /\ weeklySummary.Highlights # <<>> =>
              out.Highlights = weeklySummary.Highlights]_vars

(* analyzeActivity returned a summary with highlights and two filled      *)
(* buckets while the backend answered                                     *)
C27_Witness ==
  /\ ~backendDown
  /\ agentResult.entry = "analyzeActivity"
  /\ ~agentResult.threw
  /\ agentResult.value.weeklySummary.Highlights # <<>>
  /\ agentResult.value.weeklySummary.Features # <<>>
  /\ agentResult.value.weeklySummary.Fixes # <<>>

----------------------------------------------------------------------------
(* createWeeklySummary: properties, under SpecAgent *)

Buckets == {"Features", "Fixes", "Refactors"}

(* how often the bucket holds the description *)
TimesIn(bucket, d) == Len(SelectSeq(bucket, LAMBDA x : x = d))

(* the activities with the description d and a category of the bucket b *)
FiledUnder(acts, b, d) ==
  {i \in 1..Len(acts) :
     /\ acts[i].description = d
     /\ \E k \in 1..Len(BucketCategories[b]) :
          acts[i].category = BucketCategories[b][k]}

(* the summaries that generateStructuredSummary reads out of the answers *)
(* of the model that parse to an object or an array                      *)
AnsweredSummaries ==
  {emptySummary, [emptySummary EXCEPT !.Features = <<"Shipped CSV export">>]}

(* C12, as the claim has it: in the summary createWeeklySummary returned, *)
(* whatever the backend answered, the description of each classified      *)
(* activity of the request is in the bucket of its category and in no     *)
(* other bucket.                                                          *)
C12_EveryDescriptionInItsBucket ==
  apc = "highlights" =>
    \A i \in 1..Len(allActivities), b \in Buckets :
      TimesIn(weeklySummary[b], allActivities[i].description) > 0
        <=> FiledUnder(allActivities, b, allActivities[i].description) # {}

(* C12, amended: when generateStructuredSummary turns to                  *)
(* fallbackStructuredSummary (its model call failed, or the answer did    *)
(* not parse or validate), each bucket of the summary holds a description *)
(* once for each activity, as that fallback classified it, whose category *)
(* the fixed mapping assigns to the bucket, and nothing else; when the    *)
(* answer of the model parses, the buckets are the arrays of the answer,  *)
(* filtered of empty entries, whatever the activities are.                *)
C12_FallbackSummaryFollowsMapping ==
  /\ [][apc = "summaryFallback" /\ apc' = "highlights" =>
          /\ Len(categorizedActivities) = Len(activities)
          /\ \A b \in Buckets :
               \A d \in Range(weeklySummary'[b])
                       \cup {categorizedActivities[i].description :
                               i \in 1..Len(categorizedActivities)} :
                 TimesIn(weeklySummary'[b], d)
                   = Cardinality(FiledUnder(categorizedActivities, b, d))
          /\ Len(weeklySummary'.Features) + Len(weeklySummary'.Fixes)
               + Len(weeklySummary'.Refactors) = Len(activities)]_vars
  /\ [][apc = "summary" /\ apc' = "highlights" =>
          weeklySummary' \in AnsweredSummaries]_vars

(* the fallback has filed the fix of the commit under Fixes and the       *)
(* performance work of the pull request under Features, with a backend    *)
(* that is up                                                             *)
C12_Witness ==
  /\ ~backendDown
  /\ apc = "highlights"
  /\ weeklySummary.Fixes = <<"Null pointer in parser.">>
  /\ weeklySummary.Features = <<"PR #7: Speed up cache - BREAKING.">>
  /\ Len(allActivities) = 2

(* C13: with the backend failing on every call and commits only, the      *)
(* summary of createWeeklySummary has each commit, its technical prefix   *)
(* stripped, its first letter a capital and a period at its end, in the   *)
(* bucket of its keyword classification: for the commits                  *)
(* "fix: null pointer in parser" and "feat: add CSV export",              *)
(* Fixes = <<"Null pointer in parser.">> and                              *)
(* Features = <<"Add CSV export.">>.                                      *)
C13_FallbackBucketsOfCommits ==
  ( /\ backendDown
    /\ apc = "highlights"
    /\ input.githubData.commits
         = <<"fix: null pointer in parser", "feat: add CSV export">>
    /\ input.githubData.pullRequests = <<>>
    /\ input.notionContent = ""
    /\ input.additionalContext = "" )
  => /\ weeklySummary.Fixes = <<"Null pointer in parser.">>
     /\ weeklySummary.Features = <<"Add CSV export.">>
     /\ weeklySummary.Refactors = <<>>
     /\ weeklySummary.Notes = <<>>

(* the summary of the two commits, made with the backend down *)
C13_Witness ==
  /\ backendDown
  /\ apc = "highlights"
  /\ Len(input.githubData.commits) = 2
  /\ input.githubData.pullRequests = <<>>
  /\ Len(allActivities) = 2
  /\ Len(weeklySummary.Fixes) = 1
  /\ Len(weeklySummary.Features) = 1

====
